---------------------------- MODULE Spec2Model ----------------------------
(***************************************************************************)
(* A model of upb's streaming JSON parser (upb/json/parser.rl): the Ragel  *)
(* state machine, hand-compiled from the grammar, the callbacks it raises, *)
(* the accumulate buffer, the multipart router, the input capture and the  *)
(* frame stack.  Bytes are integers (char codes), pointers into the input  *)
(* are absolute offsets into the document tagged with the parse() call     *)
(* whose chunk they point into.                                            *)
(***************************************************************************)
EXTENDS Integers, Sequences, FiniteSets, TLC

(***************************************************************************)
(* Bytes.                                                                  *)
(***************************************************************************)
Ascii ==
  <<" ", "!", "\"", "#", "$", "%", "&", "'", "(", ")", "*", "+",
    ",", "-", ".", "/", "0", "1", "2", "3", "4", "5", "6", "7",
    "8", "9", ":", ";", "<", "=", ">", "?", "@", "A", "B", "C",
    "D", "E", "F", "G", "H", "I", "J", "K", "L", "M", "N", "O",
    "P", "Q", "R", "S", "T", "U", "V", "W", "X", "Y", "Z", "[",
    "\\", "]", "^", "_", "GRAVE", "a", "b", "c", "d", "e", "f", "g",
    "h", "i", "j", "k", "l", "m", "n", "o", "p", "q", "r", "s",
    "t", "u", "v", "w", "x", "y", "z", "{", "|", "}", "~">>

\* Ch["{"] = 123: the code of a printable character.
Ch == [c \in {Ascii[i] : i \in 1..95} |-> 31 + (CHOOSE i \in 1..95 : Ascii[i] = c)]

\* B(<<"a", "b">>) = <<97, 98>>: the bytes of a text.
B(t) == [i \in 1..Len(t) |-> Ch[t[i]]]

NUL == 0

isspace(c) == c \in {32, 9, 10, 11, 12, 13}
isdigit(c) == c \in 48..57
isxdigit(c) == c \in 48..57 \/ c \in 65..70 \/ c \in 97..102


(***************************************************************************)
(* The schema the parser is bound to (an input of the parser: the message  *)
(* definitions come from the descriptor system).  One root message with a  *)
(* field of every kind, and the map-entry messages of its map fields.      *)
(***************************************************************************)
NULL == "NULL"
UNINIT == "UNINIT"

UPB_MAPENTRY_KEY == 1
UPB_MAPENTRY_VALUE == 2

Fd(msg, name, type, rep, sub, num) ==
  [msg |-> msg, name |-> B(name), type |-> type, repeated |-> rep,
   sub |-> sub, number |-> num]

FieldDefs ==
  [a  |-> Fd("Root", <<"a">>, "INT32", FALSE, NULL, 1),
   l  |-> Fd("Root", <<"l">>, "INT64", FALSE, NULL, 2),
   u  |-> Fd("Root", <<"u">>, "UINT32", FALSE, NULL, 3),
   v  |-> Fd("Root", <<"v">>, "UINT64", FALSE, NULL, 4),
   d  |-> Fd("Root", <<"d">>, "DOUBLE", FALSE, NULL, 5),
   g  |-> Fd("Root", <<"g">>, "FLOAT", FALSE, NULL, 6),
   t  |-> Fd("Root", <<"t">>, "BOOL", FALSE, NULL, 7),
   s  |-> Fd("Root", <<"s">>, "STRING", FALSE, NULL, 8),
   b  |-> Fd("Root", <<"b">>, "BYTES", FALSE, NULL, 9),
   e  |-> Fd("Root", <<"e">>, "ENUM", FALSE, "E", 10),
   c  |-> Fd("Root", <<"c">>, "MESSAGE", FALSE, "Root", 11),
   r  |-> Fd("Root", <<"r">>, "INT32", TRUE, NULL, 12),
   q  |-> Fd("Root", <<"q">>, "MESSAGE", TRUE, "Root", 13),
   ab |-> Fd("Root", <<"a", "b">>, "INT32", FALSE, NULL, 14),
   m  |-> Fd("Root", <<"m">>, "MESSAGE", TRUE, "MapSI", 15),
   k  |-> Fd("Root", <<"k">>, "MESSAGE", TRUE, "MapBI", 16),
   i  |-> Fd("Root", <<"i">>, "MESSAGE", TRUE, "MapIS", 17),
   il |-> Fd("Root", <<"i", "l">>, "MESSAGE", TRUE, "MapLI", 18),
   iu |-> Fd("Root", <<"i", "u">>, "MESSAGE", TRUE, "MapUI", 19),
   iv |-> Fd("Root", <<"i", "v">>, "MESSAGE", TRUE, "MapVI", 20),
   o  |-> Fd("Root", <<"o">>, "MESSAGE", TRUE, "MapSM", 21),
   z  |-> Fd("Root", <<"z">>, "MESSAGE", TRUE, "MapNoKey", 22),
   y  |-> Fd("Root", <<"y">>, "MESSAGE", TRUE, "MapNoVal", 23),
   x  |-> Fd("Root", <<"x">>, "MESSAGE", TRUE, "MapDI", 24),
   MapSI_key   |-> Fd("MapSI", <<"k", "e", "y">>, "STRING", FALSE, NULL, 1),
   MapSI_value |-> Fd("MapSI", <<"v", "a", "l", "u", "e">>, "INT32", FALSE, NULL, 2),
   MapBI_key   |-> Fd("MapBI", <<"k", "e", "y">>, "BOOL", FALSE, NULL, 1),
   MapBI_value |-> Fd("MapBI", <<"v", "a", "l", "u", "e">>, "INT32", FALSE, NULL, 2),
   MapIS_key   |-> Fd("MapIS", <<"k", "e", "y">>, "INT32", FALSE, NULL, 1),
   MapIS_value |-> Fd("MapIS", <<"v", "a", "l", "u", "e">>, "STRING", FALSE, NULL, 2),
   MapLI_key   |-> Fd("MapLI", <<"k", "e", "y">>, "INT64", FALSE, NULL, 1),
   MapLI_value |-> Fd("MapLI", <<"v", "a", "l", "u", "e">>, "INT32", FALSE, NULL, 2),
   MapUI_key   |-> Fd("MapUI", <<"k", "e", "y">>, "UINT32", FALSE, NULL, 1),
   MapUI_value |-> Fd("MapUI", <<"v", "a", "l", "u", "e">>, "INT32", FALSE, NULL, 2),
   MapVI_key   |-> Fd("MapVI", <<"k", "e", "y">>, "UINT64", FALSE, NULL, 1),
   MapVI_value |-> Fd("MapVI", <<"v", "a", "l", "u", "e">>, "INT32", FALSE, NULL, 2),
   MapSM_key   |-> Fd("MapSM", <<"k", "e", "y">>, "STRING", FALSE, NULL, 1),
   MapSM_value |-> Fd("MapSM", <<"v", "a", "l", "u", "e">>, "MESSAGE", FALSE, "Root", 2),
   MapNoKey_value |-> Fd("MapNoKey", <<"v", "a", "l", "u", "e">>, "INT32", FALSE, NULL, 2),
   MapNoVal_key   |-> Fd("MapNoVal", <<"k", "e", "y">>, "STRING", FALSE, NULL, 1),
   MapDI_key   |-> Fd("MapDI", <<"k", "e", "y">>, "DOUBLE", FALSE, NULL, 1),
   MapDI_value |-> Fd("MapDI", <<"v", "a", "l", "u", "e">>, "INT32", FALSE, NULL, 2)]

FieldIds == DOMAIN FieldDefs

\* The message types that are map-entry messages.
MapEntryMsgs ==
  {"MapSI", "MapBI", "MapIS", "MapLI", "MapUI", "MapVI", "MapSM", "MapNoKey",
   "MapNoVal", "MapDI"}

\* The enum E: symbolic name -> number.
EnumE == { <<B(<<"X">>), 1>>, <<B(<<"Y", "Z">>), 2>> }

upb_fielddef_type(f) == FieldDefs[f].type
upb_fielddef_isstring(f) == FieldDefs[f].type \in {"STRING", "BYTES"}
upb_fielddef_issubmsg(f) == FieldDefs[f].type = "MESSAGE"
upb_fielddef_isseq(f) == FieldDefs[f].repeated
upb_fielddef_msgsubdef(f) == FieldDefs[f].sub
upb_fielddef_ismap(f) ==
  /\ upb_fielddef_isseq(f)
  /\ upb_fielddef_issubmsg(f)
  /\ FieldDefs[f].sub \in MapEntryMsgs

\* The field of message m with the given number, or NULL.
upb_msgdef_itof(m, num) ==
  IF \E f \in FieldIds : FieldDefs[f].msg = m /\ FieldDefs[f].number = num
  THEN CHOOSE f \in FieldIds : FieldDefs[f].msg = m /\ FieldDefs[f].number = num
  ELSE NULL

\* The number of the enum value named by the bytes, or -1 when there is none.
upb_enumdef_ntoi(name) ==
  IF \E pr \in EnumE : pr[1] = name
  THEN (CHOOSE pr \in EnumE : pr[1] = name)[2]
  ELSE -1

\* The name table of message m (json name -> fielddef), as built by
\* add_jsonname_table: the field whose name the bytes are, or NULL.
upb_strtable_lookup2(m, name) ==
  IF \E f \in FieldIds : FieldDefs[f].msg = m /\ FieldDefs[f].name = name
  THEN CHOOSE f \in FieldIds : FieldDefs[f].msg = m /\ FieldDefs[f].name = name
  ELSE NULL

(***************************************************************************)
(* Numbers.  The values of a 64-bit long do not fit the model checker's    *)
(* integers, so a natural number is the sequence of its decimal digits,    *)
(* most significant first, without leading zeros (zero is <<0>>), and a C  *)
(* integer is [neg, mag].                                                  *)
(***************************************************************************)
RECURSIVE Norm(_)
Norm(ds) == IF Len(ds) > 1 /\ ds[1] = 0 THEN Norm(Tail(ds)) ELSE ds

RECURSIVE NatLessEq(_, _)
NatLessEq(x, y) ==
  IF Len(x) # Len(y) THEN Len(x) < Len(y)
  ELSE IF Len(x) = 0 THEN TRUE
  ELSE IF x[1] # y[1] THEN x[1] < y[1]
  ELSE NatLessEq(Tail(x), Tail(y))

NatLess(x, y) == x # y /\ NatLessEq(x, y)

\* x * base + carry, for digits x, by schoolbook multiplication from the
\* least significant digit.
RECURSIVE MulAdd(_, _, _)
MulAdd(x, base, carry) ==
  IF Len(x) = 0
  THEN (IF carry = 0 THEN <<>>
        ELSE Append(MulAdd(<<>>, base, carry \div 10), carry % 10))
  ELSE Append(MulAdd(SubSeq(x, 1, Len(x) - 1), base,
                     (x[Len(x)] * base + carry) \div 10),
              (x[Len(x)] * base + carry) % 10)

NatMulAdd(x, base, dgt) == Norm(<<0>> \o MulAdd(x, base, dgt))

\* x - y for x >= y, digit by digit with borrow (t: the last digits'
\* difference).
RECURSIVE SubDigits(_, _, _)
RECURSIVE SubStep(_, _, _)
SubStep(x, y, t) ==
  Append(SubDigits(SubSeq(x, 1, Len(x) - 1),
                   IF Len(y) = 0 THEN <<>> ELSE SubSeq(y, 1, Len(y) - 1),
                   IF t < 0 THEN 1 ELSE 0),
         IF t < 0 THEN t + 10 ELSE t)

SubDigits(x, y, borrow) ==
  IF Len(x) = 0 THEN <<>>
  ELSE SubStep(x, y, x[Len(x)] - (IF Len(y) = 0 THEN 0 ELSE y[Len(y)]) - borrow)

NatSub(x, y) == Norm(SubDigits(x, y, 0))

\* The limits of the C integer types, as digits.
INT32_MAX == <<2, 1, 4, 7, 4, 8, 3, 6, 4, 7>>
INT32_MIN_MAG == <<2, 1, 4, 7, 4, 8, 3, 6, 4, 8>>
UINT32_MAX == <<4, 2, 9, 4, 9, 6, 7, 2, 9, 5>>
INT64_MAX ==
  <<9, 2, 2, 3, 3, 7, 2, 0, 3, 6, 8, 5, 4, 7, 7, 5, 8, 0, 7>>
INT64_MIN_MAG ==
  <<9, 2, 2, 3, 3, 7, 2, 0, 3, 6, 8, 5, 4, 7, 7, 5, 8, 0, 8>>
UINT64_MAX ==
  <<1, 8, 4, 4, 6, 7, 4, 4, 0, 7, 3, 7, 0, 9, 5, 5, 1, 6, 1, 5>>
TWO_32 == <<4, 2, 9, 4, 9, 6, 7, 2, 9, 6>>
TWO_64 ==
  <<1, 8, 4, 4, 6, 7, 4, 4, 0, 7, 3, 7, 0, 9, 5, 5, 1, 6, 1, 6>>

\* The limits of long and unsigned long in a build whose long has w bits
\* (32 or 64), and 2^w.
LONG_MAX(w) == IF w = 32 THEN INT32_MAX ELSE INT64_MAX
LONG_MIN_MAG(w) == IF w = 32 THEN INT32_MIN_MAG ELSE INT64_MIN_MAG
ULONG_MAX(w) == IF w = 32 THEN UINT32_MAX ELSE UINT64_MAX
ULONG_MOD(w) == IF w = 32 THEN TWO_32 ELSE TWO_64

\* The value of a digit character in bases up to 16, or 99.
DigitVal(c) ==
  IF c \in 48..57 THEN c - 48
  ELSE IF c \in 97..102 THEN c - 87
  ELSE IF c \in 65..70 THEN c - 55
  ELSE 99

\* The bytes of a C string: up to the first NUL.
RECURSIVE CStr(_)
CStr(bytes) ==
  IF Len(bytes) = 0 \/ bytes[1] = NUL THEN <<>>
  ELSE <<bytes[1]>> \o CStr(Tail(bytes))

RECURSIVE SkipSpace(_, _)
SkipSpace(t, i) == IF i <= Len(t) /\ isspace(t[i]) THEN SkipSpace(t, i + 1) ELSE i

\* The digits of base `base` from position i on: [mag, next].
RECURSIVE ScanDigits(_, _, _, _)
ScanDigits(t, i, base, acc) ==
  IF i <= Len(t) /\ DigitVal(t[i]) < base
  THEN ScanDigits(t, i + 1, base, NatMulAdd(acc, base, DigitVal(t[i])))
  ELSE [mag |-> acc, next |-> i]

\* The common part of strtol and strtoul with base 0: white space, a sign,
\* a 0x or 0 prefix, the digits.  [neg, mag, consumed]; no digits consumes
\* nothing.
ScanResult(neg, i2, r) ==
  IF r.next = i2 THEN [neg |-> FALSE, mag |-> <<0>>, consumed |-> 0]
  ELSE [neg |-> neg, mag |-> r.mag, consumed |-> r.next - 1]

ScanBase(t, neg, i2, base) ==
  ScanResult(neg, i2, ScanDigits(t, i2, base, <<0>>))

ScanPrefix(t, neg, i1) ==
  IF /\ i1 + 2 <= Len(t)
     /\ t[i1] = 48
     /\ t[i1 + 1] \in {120, 88}
     /\ DigitVal(t[i1 + 2]) < 16
  THEN ScanBase(t, neg, i1 + 2, 16)
  ELSE IF i1 <= Len(t) /\ t[i1] = 48 THEN ScanBase(t, neg, i1, 8)
  ELSE ScanBase(t, neg, i1, 10)

ScanSign(t, i0) ==
  IF i0 <= Len(t) /\ t[i0] \in {43, 45}
  THEN ScanPrefix(t, t[i0] = 45, i0 + 1)
  ELSE ScanPrefix(t, FALSE, i0)

ScanInteger(t) == ScanSign(t, SkipSpace(t, 1))

\* The result of strtol for the scanned r and the limit lim of its sign.
LongOf(r, lim) ==
  IF NatLess(lim, r.mag)
  THEN [neg |-> r.neg, mag |-> lim, consumed |-> r.consumed, erange |-> TRUE]
  ELSE [neg |-> r.neg /\ r.mag # <<0>>, mag |-> r.mag,
        consumed |-> r.consumed, erange |-> FALSE]

SignedLimit(r, w) == IF r.neg THEN LONG_MIN_MAG(w) ELSE LONG_MAX(w)

StrtolOf(r, w) == LongOf(r, SignedLimit(r, w))

\* strtol(text, &end, 0) for a long of w bits: [neg, mag, consumed, erange].
strtol(t, w) == StrtolOf(ScanInteger(t), w)

StrtoulOf(r, w) ==
  IF NatLess(ULONG_MAX(w), r.mag)
  THEN [neg |-> FALSE, mag |-> ULONG_MAX(w), consumed |-> r.consumed,
        erange |-> TRUE]
  ELSE [neg |-> FALSE,
        mag |-> IF r.neg /\ r.mag # <<0>> THEN NatSub(ULONG_MOD(w), r.mag)
                ELSE r.mag,
        consumed |-> r.consumed, erange |-> FALSE]

\* strtoul(text, &end, 0) for an unsigned long of w bits: a negative text
\* is negated in unsigned arithmetic.
strtoul(t, w) == StrtoulOf(ScanInteger(t), w)

(***************************************************************************)
(* The state.                                                              *)
(*   doc     the bytes of the document the caller delivers                 *)
(*   cfg     the build and the collaborators: ndebug (UPB_ASSERT compiled  *)
(*           out), stale (what a read through a pointer into a chunk of an *)
(*           earlier parse() call finds: "kept" or "clobbered"), long_bits *)
(*           (the width of long), endmsg_fail (the sink fails the n-th     *)
(*           endmsg, 0 = never), retry (the caller calls parse() again     *)
(*           after a short return)                                         *)
(*   parser  the upb_json_parser struct, the locals of the running parse() *)
(*           call (p, pe, buf as offsets into doc, call = its number), the *)
(*           sink's event log and env's error log                          *)
(*   pc      "idle" between calls, "exec" inside the machine, "out" after  *)
(*           it, "halt" once the caller has stopped                        *)
(*   caller  the caller's view: next offset to deliver, returned counts    *)
(***************************************************************************)
VARIABLES doc, cfg, parser, pc, caller

vars == <<doc, cfg, parser, pc, caller>>

UPB_JSON_MAX_DEPTH == 64

MULTIPART_INACTIVE == 0
MULTIPART_ACCUMULATE == 1
MULTIPART_PUSHEAGERLY == 2

NullPtr == [kind |-> "NULL", call |-> 0, off |-> 0]
\* A pointer into the chunk of parse() call number `call`, at offset off of doc.
ChunkPtr(call, off) == [kind |-> "chunk", call |-> call, off |-> off]
\* &suspend_capture
SuspendPtr == [kind |-> "suspend_capture", call |-> 0, off |-> 0]
\* p->accumulate_buf (when allocated)
BufPtr == [kind |-> "accumulate_buf", call |-> 0, off |-> 0]
\* A local or static object of the callback (a char, "\0", utf8[]).
LocalPtr == [kind |-> "local", call |-> 0, off |-> 0]

top(P) == P.stack[Len(P.stack)]

\* upb_env_reporterror(p->env, &p->status) after upb_status_seterr*.
\* (err_events, err_actions: how many events the sink had seen and how many
\* callbacks had run in this parse() call when its first error was reported.)
Report(P, msg) ==
  IF P.crash # "none" THEN P
  ELSE IF Len(P.errors) = P.nerrors0
  THEN [P EXCEPT !.errors = Append(@, msg), !.err_events = Len(P.events),
                 !.err_actions = P.nactions]
  ELSE [P EXCEPT !.errors = Append(@, msg)]

\* A call of a sink handler: the event, the frame whose sink receives it
\* (0: a sink that is no frame's), the field of the selector.
Emit(P, op, sink, f, val, handle) ==
  IF P.crash # "none" THEN P
  ELSE [P EXCEPT !.events =
          Append(@, [op |-> op, sink |-> sink, f |-> f, val |-> val,
                     handle |-> handle])]

\* UPB_ASSERT(cond): aborts the process unless compiled with NDEBUG.
UPB_ASSERT(P, cond) ==
  IF cond \/ cfg.ndebug \/ P.crash # "none" THEN P
  ELSE [P EXCEPT !.crash = "assert"]

\* A dereference of p->top->f when it is NULL: undefined behaviour.
DerefF(P) ==
  IF top(P).f \in FieldIds \/ P.crash # "none" THEN P
  ELSE [P EXCEPT !.crash = "ub"]

\* The field p->top->f as far as the model can follow it.
TopF(P) == IF top(P).f \in FieldIds THEN top(P).f ELSE "a"

Ret(P, v) == [P EXCEPT !.ret = v]

\* A check_stack whose comparison is off by one: it lets the 65th frame in.
check_stack_late(P) ==
  IF Len(P.stack) > UPB_JSON_MAX_DEPTH
  THEN Ret(Report(P, "Nesting too deep"), FALSE)
  ELSE Ret(P, TRUE)

check_stack(P) ==
  IF Len(P.stack) = UPB_JSON_MAX_DEPTH
  THEN Ret(Report(P, "Nesting too deep"), FALSE)
  ELSE Ret(P, TRUE)

(***************************************************************************)
(* Accumulate buffer.                                                      *)
(***************************************************************************)
\* Whether ptr points into the chunk of a parse() call that has returned.
Dangling(P, ptr) == ptr.kind = "chunk" /\ ptr.call # P.call

\* What a read of n bytes through pointer ptr finds, `bytes` being what was
\* there when the pointer was taken: a pointer into the chunk of an earlier
\* parse() call is dangling.
ReadBytes(P, ptr, bytes) ==
  IF Dangling(P, ptr) /\ cfg.stale = "clobbered"
  THEN [i \in 1..Len(bytes) |-> 63]
  ELSE bytes

\* The logical content of the accumulator as a reader of p->accumulated sees it.
AccBytes(P) ==
  IF P.accumulated.kind = "NULL" THEN <<>>
  ELSE IF P.accumulated.kind = "accumulate_buf"
  THEN SubSeq(P.accumulate_buf, 1, P.accumulated_len)
  ELSE ReadBytes(P, P.accumulated, P.aliased)

accumulate_clear(P) ==
  [P EXCEPT !.accumulated = NullPtr, !.accumulated_len = 0, !.aliased = <<>>]

assert_accumulate_empty(P) ==
  UPB_ASSERT(P, P.accumulated.kind = "NULL" /\ P.accumulated_len = 0)

SIZE_MAX_MODEL == 1000000

checked_add_ok(x, y) == ~(SIZE_MAX_MODEL - x < y)

\* size_t arithmetic is modulo SIZE_MAX + 1.
size_t(x) == x % (SIZE_MAX_MODEL + 1)

\* A multiplication that wraps around and is not checked.
wrapping_multiply(x, y) == size_t(x * y)

\* ret = a * b; if (b != 0 && ret / b != a) ret = SIZE_MAX;
saturating_multiply(x, y) ==
  IF y # 0 /\ size_t(x * y) \div y # x THEN SIZE_MAX_MODEL ELSE size_t(x * y)

RECURSIVE GrowSize(_, _)
GrowSize(new_size, need) ==
  IF new_size < need THEN GrowSize(saturating_multiply(new_size, 2), need)
  ELSE new_size

\* The n-th call of upb_env_realloc fails when cfg.oom_at = n.
accumulate_realloc(P, need) ==
  IF P.allocs + 1 = cfg.oom_at
  THEN Ret(Report([P EXCEPT !.allocs = @ + 1],
                  "Out of memory allocating buffer."), FALSE)
  ELSE Ret([P EXCEPT !.allocs = @ + 1,
                     !.accumulate_buf_size =
                        GrowSize(IF P.accumulate_buf_size > 128
                                 THEN P.accumulate_buf_size ELSE 128, need)],
           TRUE)

\* The rest of accumulate_append once the buffer is large enough (P.ret: the
\* result of accumulate_realloc): memcpy(p->accumulate_buf, p->accumulated,
\* p->accumulated_len) unless it is the buffer already, then the new bytes.
accumulate_copy(P, ptr, bytes) ==
  IF ~P.ret THEN P
  ELSE Ret([P EXCEPT
              !.stale_read = @ \/ (Dangling(P, P.accumulated)
                                   /\ P.accumulated_len > 0),
              !.accumulated =
                 IF P.accumulate_buf_size > 0 THEN BufPtr ELSE NullPtr,
              !.aliased = <<>>,
              !.accumulate_buf = AccBytes(P) \o ReadBytes(P, ptr, bytes),
              !.accumulated_len = P.accumulated_len + Len(bytes)], TRUE)

accumulate_append(P, ptr, bytes, can_alias) ==
  IF P.accumulated.kind = "NULL" /\ can_alias
  THEN Ret([P EXCEPT !.accumulated = ptr, !.accumulated_len = Len(bytes),
                     !.aliased = bytes], TRUE)
  ELSE IF ~checked_add_ok(P.accumulated_len, Len(bytes))
  THEN Ret(Report(P, "Integer overflow."), FALSE)
  ELSE IF P.accumulated_len + Len(bytes) > P.accumulate_buf_size
  THEN accumulate_copy(accumulate_realloc(P, P.accumulated_len + Len(bytes)),
                       ptr, bytes)
  ELSE accumulate_copy(Ret(P, TRUE), ptr, bytes)

\* accumulate_getptr: asserts that something was accumulated.
accumulate_getptr(P) == UPB_ASSERT(P, P.accumulated.kind # "NULL")

(***************************************************************************)
(* Multipart text and input capture.                                       *)
(***************************************************************************)
multipart_startaccum(P) ==
  [UPB_ASSERT(assert_accumulate_empty(P),
              P.multipart_state = MULTIPART_INACTIVE)
     EXCEPT !.multipart_state = MULTIPART_ACCUMULATE]

multipart_start(P, sel) ==
  [UPB_ASSERT(assert_accumulate_empty(P),
              P.multipart_state = MULTIPART_INACTIVE)
     EXCEPT !.multipart_state = MULTIPART_PUSHEAGERLY, !.string_selector = sel]

multipart_text(P, ptr, bytes, can_alias) ==
  IF P.multipart_state = MULTIPART_INACTIVE
  THEN Ret(Report(P, "Internal error: unexpected state MULTIPART_INACTIVE"),
           FALSE)
  ELSE IF P.multipart_state = MULTIPART_ACCUMULATE
  THEN accumulate_append(P, ptr, bytes, can_alias)
  ELSE Ret(Emit(P, "putstring", Len(P.stack), P.string_selector,
                ReadBytes(P, ptr, bytes), can_alias), TRUE)

multipart_end(P) ==
  accumulate_clear([UPB_ASSERT(P, P.multipart_state # MULTIPART_INACTIVE)
                      EXCEPT !.multipart_state = MULTIPART_INACTIVE])

\* The bytes of doc in [from, to), offsets counted from 0.
Slice(from, to) == SubSeq(doc, from + 1, to)

capture_begin(P, ptr) ==
  [UPB_ASSERT(UPB_ASSERT(P, P.multipart_state # MULTIPART_INACTIVE),
              P.capture.kind = "NULL")
     EXCEPT !.capture = ChunkPtr(P.call, ptr)]

\* The bytes between the capture pointer and ptr (none when the capture
\* pointer is not a pointer into the input before ptr).
Captured(P, ptr) ==
  IF P.capture.kind = "chunk" /\ P.capture.off <= ptr
  THEN Slice(P.capture.off, ptr) ELSE <<>>

\* capture_end after multipart_text (P.ret: its result).
capture_ended(P) == IF P.ret THEN [P EXCEPT !.capture = NullPtr] ELSE P

\* A capture_end that leaves the capture pointer set.
capture_end_keeps(P, ptr) ==
  multipart_text(UPB_ASSERT(P, P.capture.kind # "NULL"), P.capture,
                 Captured(P, ptr), TRUE)

capture_end(P, ptr) ==
  capture_ended(multipart_text(UPB_ASSERT(P, P.capture.kind # "NULL"),
                               P.capture, Captured(P, ptr), TRUE))

\* A capture_suspend that marks the capture suspended without passing on the
\* text captured so far: what the parser would do if the seam lost that text.
capture_suspend_forgets(P) ==
  IF P.capture.kind = "NULL" THEN P ELSE [P EXCEPT !.capture = SuspendPtr]

\* capture_suspend after multipart_text (P.ret: its result).
capture_suspended(P) ==
  IF P.ret THEN [P EXCEPT !.capture = SuspendPtr]
  ELSE [P EXCEPT !.p = P.capture.off]

\* capture_suspend(p, &ptr): *ptr is the local p of parse().
capture_suspend(P) ==
  IF P.capture.kind = "NULL" THEN P
  ELSE capture_suspended(multipart_text(P, P.capture, Captured(P, P.p), FALSE))

capture_resume(P, ptr) ==
  IF P.capture.kind # "NULL"
  THEN [UPB_ASSERT(P, P.capture.kind = "suspend_capture")
          EXCEPT !.capture = ChunkPtr(P.call, ptr)]
  ELSE P

(***************************************************************************)
(* Base64 decoding.                                                        *)
(***************************************************************************)
b64lookup(c) ==
  IF c \in 65..90 THEN c - 65
  ELSE IF c \in 97..122 THEN c - 97 + 26
  ELSE IF c \in 48..57 THEN c - 48 + 52
  ELSE IF c = 43 THEN 62
  ELSE IF c = 47 THEN 63
  ELSE -1

nonbase64(c) == b64lookup(c) = -1 /\ c # 61

\* A B64Out whose second byte takes the low bits of the third value instead
\* of its high bits.
B64Out_lowbits(v0, v1, v2, v3) ==
  <<v0 * 4 + v1 \div 16, (v1 % 16) * 16 + (v2 % 16), (v2 % 4) * 64 + v3>>

\* The output bytes of a 24-bit group of four 6-bit values.
B64Out(v0, v1, v2, v3) ==
  <<v0 * 4 + v1 \div 16, (v1 % 16) * 16 + v2 \div 4, (v2 % 4) * 64 + v3>>

RECURSIVE base64_push(_, _, _, _)
base64_push(P, sel, bytes, i) ==
  IF i > Len(bytes) THEN Ret(P, TRUE)
  ELSE IF Len(bytes) - i + 1 < 4
  THEN Ret(Report(P, "Base64 input for bytes field not a multiple of 4"), FALSE)
  ELSE LET c0 == bytes[i]
           c1 == bytes[i + 1]
           c2 == bytes[i + 2]
           c3 == bytes[i + 3]
           bad == \E c \in {c0, c1, c2, c3} : b64lookup(c) = -1
       IN IF ~bad
          THEN base64_push(
                 Emit(P, "putstring", Len(P.stack), sel,
                      B64Out(b64lookup(c0), b64lookup(c1), b64lookup(c2),
                             b64lookup(c3)), FALSE),
                 sel, bytes, i + 4)
          ELSE IF nonbase64(c0) \/ nonbase64(c1) \/ nonbase64(c2) \/ nonbase64(c3)
          THEN Ret(Report(P, "Non-base64 characters in bytes field"), FALSE)
          ELSE IF c2 = 61
          THEN (IF c0 = 61 \/ c1 = 61 \/ c3 # 61
                THEN Ret(Report(P, "Incorrect base64 padding for field"), FALSE)
                ELSE Ret(Emit(P, "putstring", Len(P.stack), sel,
                              SubSeq(B64Out(b64lookup(c0), b64lookup(c1), 0, 0),
                                     1, 1), FALSE), TRUE))
          ELSE (IF c0 = 61 \/ c1 = 61 \/ c2 = 61
                THEN Ret(Report(P, "Incorrect base64 padding for field"), FALSE)
                ELSE Ret(Emit(P, "putstring", Len(P.stack), sel,
                              SubSeq(B64Out(b64lookup(c0), b64lookup(c1),
                                            b64lookup(c2), 0), 1, 2), FALSE),
                         TRUE))

(***************************************************************************)
(* Callbacks from the parser.                                              *)
(***************************************************************************)
escape_char(c) ==
  CASE c = 114 -> 13
    [] c = 116 -> 9
    [] c = 110 -> 10
    [] c = 102 -> 12
    [] c = 98 -> 8
    [] c = 47 -> 47
    [] c = 34 -> 34
    [] c = 92 -> 92
    [] OTHER -> 120

escape(P, ptr) == multipart_text(P, LocalPtr, <<escape_char(doc[ptr + 1])>>, FALSE)

start_hex(P) == [P EXCEPT !.digit = 0]

hexdigit(P, ptr) == [P EXCEPT !.digit = (@ * 16) + DigitVal(doc[ptr + 1])]

\* An encoding that knows no three-byte form.
Utf8_short(codepoint) ==
  IF codepoint <= 127 THEN <<codepoint>>
  ELSE <<((codepoint \div 64) % 32) + 192, (codepoint % 64) + 128>>

\* The codepoint as UTF-8, in at most three bytes.
Utf8(codepoint) ==
  IF codepoint <= 127 THEN <<codepoint>>
  ELSE IF codepoint <= 2047
  THEN <<((codepoint \div 64) % 32) + 192, (codepoint % 64) + 128>>
  ELSE <<((codepoint \div 4096) % 16) + 224,
         ((codepoint \div 64) % 64) + 128,
         (codepoint % 64) + 128>>

end_hex(P) == multipart_text(P, LocalPtr, Utf8(P.digit), FALSE)

start_text(P, ptr) == capture_begin(P, ptr)

end_text(P, ptr) == capture_end(P, ptr)

start_number(P, ptr) == capture_begin(multipart_startaccum(P), ptr)

\* A C integer as the value of an event: the sign (1 = negative), the digits.
IntVal(neg, mag) == <<IF neg THEN 1 ELSE 0>> \o mag

\* The selector of p->top->f for its value type.
parser_getsel(P) == DerefF(P)

PutName(type) ==
  CASE type \in {"INT32", "ENUM"} -> "putint32"
    [] type = "INT64" -> "putint64"
    [] type = "UINT32" -> "putuint32"
    [] type = "UINT64" -> "putuint64"
    [] type = "DOUBLE" -> "putdouble"
    [] type = "FLOAT" -> "putfloat"
    [] OTHER -> "putbool"

\* strtod on a decimal text: white space, a sign, digits with an optional
\* point, an optional exponent.  The model keeps the text as the value and
\* computes what the callers look at: how much was consumed and whether the
\* value is out of the range of double.  The range is decided by the decimal
\* order of magnitude of the value (the texts of the documents stay away
\* from the two orders where the mantissa decides); whether an underflow
\* sets errno is implementation-defined (cfg.underflow_erange).
DBL_MAX_10_EXP == 308
DBL_MIN_10_EXP == -307
ExpCap == 10 * DBL_MAX_10_EXP

RECURSIVE SkipDigits(_, _)
SkipDigits(t, i) ==
  IF i <= Len(t) /\ isdigit(t[i]) THEN SkipDigits(t, i + 1) ELSE i

\* The value of the decimal digits t[i..j-1], saturating at ExpCap.
RECURSIVE ScanExp(_, _, _, _)
ScanExp(t, i, j, acc) ==
  IF i >= j THEN acc
  ELSE IF acc * 10 + (t[i] - 48) >= ExpCap THEN ExpCap
  ELSE ScanExp(t, i + 1, j, acc * 10 + (t[i] - 48))

NonZeroAt(t, i, j) == {k \in i..(j - 1) : t[k] # 48}
MinOf(S) == CHOOSE x \in S : \A y \in S : x <= y

\* The decimal order of magnitude of the mantissa with integer digits
\* t[i1..i2-1] and fraction digits t[f1..f2-1], times 10^e.
StrtodOrder(t, i1, i2, f1, f2, e) ==
  IF NonZeroAt(t, i1, i2) # {}
  THEN i2 - MinOf(NonZeroAt(t, i1, i2)) - 1 + e
  ELSE -(MinOf(NonZeroAt(t, f1, f2)) - f1 + 1) + e

StrtodRange(nonzero, order) ==
  /\ nonzero
  /\ \/ order > DBL_MAX_10_EXP
     \/ order < DBL_MIN_10_EXP /\ cfg.underflow_erange

StrtodResult(t, i1, i2, f1, f2, next, e) ==
  [text |-> t, consumed |-> next - 1,
   erange |->
     StrtodRange(NonZeroAt(t, i1, i2) \cup NonZeroAt(t, f1, f2) # {},
                 IF NonZeroAt(t, i1, i2) \cup NonZeroAt(t, f1, f2) # {}
                 THEN StrtodOrder(t, i1, i2, f1, f2, e) ELSE 0)]

\* The exponent whose digits are t[d..d2-1]; without digits the e is not
\* part of the number.
StrtodExpDigits(t, i1, i2, f1, f2, m, neg, d, d2) ==
  IF d2 = d THEN StrtodResult(t, i1, i2, f1, f2, m, 0)
  ELSE StrtodResult(t, i1, i2, f1, f2, d2,
                    IF neg THEN -ScanExp(t, d, d2, 0)
                    ELSE ScanExp(t, d, d2, 0))

StrtodExpSign(t, i1, i2, f1, f2, m, neg, d) ==
  StrtodExpDigits(t, i1, i2, f1, f2, m, neg, d, SkipDigits(t, d))

\* m: the position after the mantissa.
StrtodExp(t, i1, i2, f1, f2, m) ==
  IF m <= Len(t) /\ t[m] \in {101, 69}
  THEN IF m + 1 <= Len(t) /\ t[m + 1] \in {43, 45}
       THEN StrtodExpSign(t, i1, i2, f1, f2, m, t[m + 1] = 45, m + 2)
       ELSE StrtodExpSign(t, i1, i2, f1, f2, m, FALSE, m + 1)
  ELSE StrtodResult(t, i1, i2, f1, f2, m, 0)

StrtodMant(t, i1, i2, f1, f2) ==
  IF i2 = i1 /\ f2 = f1
  THEN [text |-> t, consumed |-> 0, erange |-> FALSE]
  ELSE StrtodExp(t, i1, i2, f1, f2, IF f1 > i2 THEN f2 ELSE i2)

StrtodFrac(t, i1, i2) ==
  IF i2 <= Len(t) /\ t[i2] = 46
  THEN StrtodMant(t, i1, i2, i2 + 1, SkipDigits(t, i2 + 1))
  ELSE StrtodMant(t, i1, i2, i2, i2)

StrtodSign(t, i0) ==
  IF i0 <= Len(t) /\ t[i0] \in {43, 45}
  THEN StrtodFrac(t, i0 + 1, SkipDigits(t, i0 + 1))
  ELSE StrtodFrac(t, i0, SkipDigits(t, i0))

strtod(t) == StrtodSign(t, SkipSpace(t, 1))

\* The field types parse_number has a case for.
NumberTypes ==
  {"ENUM", "INT32", "INT64", "UINT32", "UINT64", "DOUBLE", "FLOAT"}

\* The conversion the case of `type` calls on the accumulated text.
strto(type, text) ==
  CASE type \in {"ENUM", "INT32", "INT64"} -> strtol(text, cfg.long_bits)
    [] type \in {"UINT32", "UINT64"} -> strtoul(text, cfg.long_bits)
    [] OTHER -> [neg |-> FALSE, mag |-> <<0>>,
                 consumed |-> strtod(text).consumed,
                 erange |-> strtod(text).erange]

\* val > T_MAX || val < T_MIN for the converted long or unsigned long r.
OutOfRange(type, r) ==
  CASE type \in {"ENUM", "INT32"} ->
         \/ ~r.neg /\ NatLess(INT32_MAX, r.mag)
         \/ r.neg /\ NatLess(INT32_MIN_MAG, r.mag)
    [] type = "INT64" ->
         \/ ~r.neg /\ NatLess(INT64_MAX, r.mag)
         \/ r.neg /\ NatLess(INT64_MIN_MAG, r.mag)
    [] type = "UINT32" -> NatLess(UINT32_MAX, r.mag)
    [] type = "UINT64" -> NatLess(UINT64_MAX, r.mag)
    [] OTHER -> FALSE

\* A parse_number whose cases leave out the test end != myend.
parse_number_put_noend(P, text, type, r) ==
  IF OutOfRange(type, r) \/ P.errno = "ERANGE"
  THEN Ret(multipart_end(Report(P, "error parsing number")), FALSE)
  ELSE Ret(multipart_end(
             Emit(parser_getsel(P), PutName(type), Len(P.stack), TopF(P),
                  IF type \in {"DOUBLE", "FLOAT"} THEN text
                  ELSE IntVal(r.neg, r.mag), FALSE)), TRUE)

\* The test of a case after its conversion r (errno is set by a conversion
\* that overflows and never cleared; myend = buf + len - 1), then the put or
\* the label err.
parse_number_put(P, text, type, r) ==
  IF \/ OutOfRange(type, r)
     \/ P.errno = "ERANGE"
     \/ r.consumed # P.accumulated_len - 1
  THEN Ret(multipart_end(Report(P, "error parsing number")), FALSE)
  ELSE Ret(multipart_end(
             Emit(parser_getsel(P), PutName(type), Len(P.stack), TopF(P),
                  IF type \in {"DOUBLE", "FLOAT"} THEN text
                  ELSE IntVal(r.neg, r.mag), FALSE)), TRUE)

parse_number_case(P, text, type, r) ==
  parse_number_put([P EXCEPT !.errno = IF r.erange THEN "ERANGE" ELSE @],
                   text, type, r)

\* The switch on upb_fielddef_type(p->top->f) over the NUL-terminated text.
parse_number_type(P, text, type) ==
  IF type \in NumberTypes
  THEN parse_number_case(P, text, type, strto(type, text))
  ELSE Ret(multipart_end(UPB_ASSERT(P, FALSE)), TRUE)

\* parse_number after multipart_text(p, "\0", 1, false) (P.ret: its result).
parse_number_switch(P) ==
  IF ~P.ret THEN P
  ELSE parse_number_type(DerefF(accumulate_getptr(P)), CStr(AccBytes(P)),
                         upb_fielddef_type(TopF(P)))

parse_number(P) ==
  parse_number_switch(multipart_text(P, LocalPtr, <<NUL>>, FALSE))

\* end_number after capture_end (P.ret: its result).
end_number_parse(P) == IF ~P.ret THEN P ELSE parse_number(P)

end_number(P, ptr) == end_number_parse(capture_end(P, ptr))

\* parser_putbool without the test of the field's type.
parser_putbool_any(P, val) ==
  Ret(Emit(DerefF(P), "putbool", Len(P.stack), TopF(P),
           <<IF val THEN 1 ELSE 0>>, FALSE), TRUE)

parser_putbool(P, val) ==
  IF upb_fielddef_type(TopF(P)) # "BOOL"
  THEN Ret(Report(DerefF(P), "Boolean value specified for non-bool field"),
           FALSE)
  ELSE Ret(Emit(DerefF(P), "putbool", Len(P.stack), TopF(P),
                <<IF val THEN 1 ELSE 0>>, FALSE), TRUE)

Frame(m, f, name_table, is_map, is_mapentry, mapfield) ==
  [m |-> m, f |-> f, name_table |-> name_table, is_map |-> is_map,
   is_mapentry |-> is_mapentry, mapfield |-> mapfield]

\* p->top = inner, for the frame inner = p->top + 1 as filled in.
Push(P, frame) == [P EXCEPT !.stack = Append(@, frame)]

\* p->top--: below the first frame the pointer leaves the array.
Pop(P) ==
  IF Len(P.stack) > 1
  THEN [P EXCEPT !.stack = SubSeq(@, 1, Len(@) - 1)]
  ELSE IF P.crash # "none" THEN P
  ELSE [P EXCEPT !.crash = "ub"]

SetF(P, f) == [P EXCEPT !.stack[Len(P.stack)].f = f]

\* start_stringval that accumulates the text of STRING fields too.
start_stringval_push_accum(P, f) ==
  IF ~P.ret THEN P
  ELSE Ret(multipart_startaccum(
             Push(Emit(P, "startstr", Len(P.stack), f, <<0>>, FALSE),
                  Frame(top(P).m, top(P).f, NULL, FALSE, FALSE, UNINIT))),
           TRUE)

\* The new frame of a string or bytes value, after check_stack (P.ret).
start_stringval_push(P, f) ==
  IF ~P.ret THEN P
  ELSE IF upb_fielddef_type(f) = "STRING"
  THEN Ret(multipart_start(
             Push(Emit(P, "startstr", Len(P.stack), f, <<0>>, FALSE),
                  Frame(top(P).m, top(P).f, NULL, FALSE, FALSE, UNINIT)), f),
           TRUE)
  ELSE Ret(multipart_startaccum(
             Push(Emit(P, "startstr", Len(P.stack), f, <<0>>, FALSE),
                  Frame(top(P).m, top(P).f, NULL, FALSE, FALSE, UNINIT))),
           TRUE)

start_stringval_field(P, f) ==
  IF upb_fielddef_isstring(f) THEN start_stringval_push(check_stack(P), f)
  ELSE IF upb_fielddef_type(f) = "ENUM" THEN Ret(multipart_startaccum(P), TRUE)
  ELSE Ret(Report(P, "String specified for non-string/non-enum field"), FALSE)

start_stringval(P) ==
  start_stringval_field(DerefF(UPB_ASSERT(P, top(P).f # NULL)), TopF(P))

\* case UPB_TYPE_STRING, and UPB_TYPE_BYTES after base64_push (P.ret).
end_stringval_endstr(P, f) ==
  IF ~P.ret THEN P
  ELSE Ret(multipart_end(Emit(Pop(P), "endstr", Len(P.stack) - 1, f, <<>>,
                              FALSE)), TRUE)

\* case UPB_TYPE_ENUM, int_val being -1 when upb_enumdef_ntoi fails.
end_stringval_enum(P, f, int_val) ==
  IF int_val # -1
  THEN Ret(multipart_end(Emit(parser_getsel(P), "putint32", Len(P.stack), f,
                              IntVal(FALSE, <<int_val>>), FALSE)), TRUE)
  ELSE Ret(multipart_end(Report(P, "Enum value unknown")), FALSE)

end_stringval_type(P, f, type) ==
  CASE type = "BYTES" ->
         end_stringval_endstr(base64_push(P, f, AccBytes(P), 1), f)
    [] type = "STRING" -> end_stringval_endstr(Ret(P, TRUE), f)
    [] type = "ENUM" ->
         end_stringval_enum(accumulate_getptr(P), f,
                            upb_enumdef_ntoi(AccBytes(P)))
    [] OTHER ->
         Ret(multipart_end(Report(UPB_ASSERT(P, FALSE),
                                  "Internal error in JSON decoder")), FALSE)

end_stringval(P) ==
  end_stringval_type(DerefF(P), TopF(P), upb_fielddef_type(TopF(P)))

start_member(P) == multipart_startaccum(UPB_ASSERT(P, top(P).f = NULL))

\* case UPB_TYPE_BOOL after parser_putbool (P.ret: its result).
parse_mapentry_key_bool(P) ==
  IF P.ret THEN Ret(multipart_end(P), TRUE) ELSE P

\* parse_mapentry_key once p->top->f is the key field: buf and len are the
\* accumulated text.
parse_mapentry_key_type(P, key, buf, len) ==
  IF key = NULL
  THEN Ret(Report(P, "mapentry message has no key"), FALSE)
  ELSE CASE upb_fielddef_type(key)
              \in {"INT32", "INT64", "UINT32", "UINT64"} ->
              parse_number(P)
         [] upb_fielddef_type(key) = "BOOL" ->
              IF buf = B(<<"t", "r", "u", "e">>)
              THEN parse_mapentry_key_bool(parser_putbool(P, TRUE))
              ELSE IF buf = B(<<"f", "a", "l", "s", "e">>)
              THEN parse_mapentry_key_bool(parser_putbool(P, FALSE))
              ELSE Ret(Report(P, "Map bool key not 'true' or 'false'"), FALSE)
         [] upb_fielddef_type(key) \in {"STRING", "BYTES"} ->
              Ret(multipart_end(
                    Emit(Emit(Emit(P, "startstr", Len(P.stack), key, <<len>>,
                                   FALSE),
                              "putstring", 0, key, buf, FALSE),
                         "endstr", Len(P.stack), key, <<>>, FALSE)), TRUE)
         [] OTHER ->
              Ret(Report(P, "Invalid field type for map key"), FALSE)

parse_mapentry_key(P) ==
  parse_mapentry_key_type(
    SetF(accumulate_getptr(P), upb_msgdef_itof(top(P).m, UPB_MAPENTRY_KEY)),
    upb_msgdef_itof(top(P).m, UPB_MAPENTRY_KEY), AccBytes(P),
    P.accumulated_len)

\* The end of handle_mapentry: the value field is looked up.
handle_mapentry_value(P) ==
  IF top(P).f = NULL
  THEN Ret(Report(P, "mapentry message has no value"), FALSE)
  ELSE Ret(P, TRUE)

\* handle_mapentry after parse_mapentry_key(p), whose result is not looked
\* at: the frame is set up for the value.
handle_mapentry_key(P, mapfield) ==
  handle_mapentry_value(
    [P EXCEPT !.stack[Len(P.stack)].f =
                 upb_msgdef_itof(top(P).m, UPB_MAPENTRY_VALUE),
              !.stack[Len(P.stack)].is_mapentry = TRUE,
              !.stack[Len(P.stack)].mapfield = mapfield])

\* handle_mapentry after check_stack (P.ret: its result): the frame of the
\* map entry, startsubmsg and startmsg, then the key.
handle_mapentry_inner(P) ==
  IF ~P.ret THEN P
  ELSE handle_mapentry_key(
         parse_mapentry_key(
           Emit(Push(Emit(SetF(P, top(P).mapfield), "startsubmsg",
                          Len(P.stack), top(P).mapfield, <<>>, FALSE),
                     Frame(upb_fielddef_msgsubdef(top(P).mapfield), UNINIT,
                           NULL, FALSE, FALSE, top(P).mapfield)),
                "startmsg", Len(P.stack) + 1, "-", <<>>, FALSE)),
         top(P).mapfield)

handle_mapentry(P) == handle_mapentry_inner(check_stack(P))

\* The use of p->top->name_table by upb_strtable_lookup2: it is NULL in the
\* frames of strings, arrays, maps and map entries.
name_table_deref(P) ==
  IF top(P).name_table \in {NULL, UNINIT} /\ P.crash = "none"
  THEN [P EXCEPT !.crash = "ub"] ELSE P

\* end_membername after the lookup of the name, v being the field or NULL.
end_membername_lookup(P, v) ==
  IF v # NULL THEN Ret(multipart_end(SetF(P, v)), TRUE)
  ELSE Ret(Report(P, "No such field"), FALSE)

end_membername(P) ==
  IF top(P).is_map THEN handle_mapentry(UPB_ASSERT(P, top(P).f = NULL))
  ELSE end_membername_lookup(
         name_table_deref(accumulate_getptr(UPB_ASSERT(P, top(P).f = NULL))),
         upb_strtable_lookup2(top(P).name_table, AccBytes(P)))

\* The sink's endmsg handler: it reports failure on its cfg.endmsg_fail-th call.
SinkEndmsg(P, sink) ==
  [Emit(P, "endmsg", sink, "-", <<>>, FALSE)
     EXCEPT !.endmsgs = @ + 1,
            !.sink_ok = (P.endmsgs + 1 # cfg.endmsg_fail)]

\* An end_member that pops the frame of a map entry and leaves the field of
\* the then-top frame as it is.
end_member_keeps(P) ==
  IF top(P).is_mapentry
  THEN Emit(Pop(SinkEndmsg(UPB_ASSERT(P, Len(P.stack) > 1), Len(P.stack))),
            "endsubmsg", Len(P.stack) - 1, top(P).mapfield, <<>>, FALSE)
  ELSE SetF(P, NULL)

end_member(P) ==
  IF top(P).is_mapentry
  THEN SetF(Emit(Pop(SinkEndmsg(UPB_ASSERT(P, Len(P.stack) > 1),
                                Len(P.stack))),
                 "endsubmsg", Len(P.stack) - 1, top(P).mapfield, <<>>, FALSE),
            NULL)
  ELSE SetF(P, NULL)

\* A start_subobject whose frame of a map is flagged as a map entry as well.
start_subobject_push_entry(P, f) ==
  IF ~P.ret THEN P
  ELSE IF upb_fielddef_ismap(f)
  THEN Ret(Push(Emit(P, "startseq", Len(P.stack), f, <<>>, FALSE),
                Frame(upb_fielddef_msgsubdef(f), NULL, NULL, TRUE, TRUE, f)),
           TRUE)
  ELSE Ret(Push(Emit(P, "startsubmsg", Len(P.stack), f, <<>>, FALSE),
                Frame(upb_fielddef_msgsubdef(f), NULL,
                      upb_fielddef_msgsubdef(f), FALSE, FALSE, UNINIT)),
           TRUE)

\* The new frame of a map or of a submessage, after check_stack (P.ret).
start_subobject_push(P, f) ==
  IF ~P.ret THEN P
  ELSE IF upb_fielddef_ismap(f)
  THEN Ret(Push(Emit(P, "startseq", Len(P.stack), f, <<>>, FALSE),
                Frame(upb_fielddef_msgsubdef(f), NULL, NULL, TRUE, FALSE, f)),
           TRUE)
  ELSE Ret(Push(Emit(P, "startsubmsg", Len(P.stack), f, <<>>, FALSE),
                Frame(upb_fielddef_msgsubdef(f), NULL,
                      upb_fielddef_msgsubdef(f), FALSE, FALSE, UNINIT)),
           TRUE)

start_subobject_field(P, f) ==
  IF upb_fielddef_ismap(f) \/ upb_fielddef_issubmsg(f)
  THEN start_subobject_push(check_stack(P), f)
  ELSE Ret(Report(P, "Object specified for non-message/group field"), FALSE)

start_subobject(P) ==
  start_subobject_field(DerefF(UPB_ASSERT(P, top(P).f # NULL)), TopF(P))

\* The event of end_subobject or end_array after p->top--.
end_subobject_emit(P, op) ==
  Emit(P, op, Len(P.stack), TopF(P), <<>>, FALSE)

\* end_subobject that takes every frame it pops for the frame of a map.
end_subobject_seq(P) == end_subobject_emit(DerefF(Pop(P)), "endseq")

end_subobject(P) ==
  IF top(P).is_map
  THEN end_subobject_emit(DerefF(Pop(P)), "endseq")
  ELSE end_subobject_emit(DerefF(Pop(P)), "endsubmsg")

\* The new frame of an array, after check_stack (P.ret: its result).
start_array_push(P, f) ==
  IF ~P.ret THEN P
  ELSE Ret(Push(Emit(P, "startseq", Len(P.stack), f, <<>>, FALSE),
                Frame(top(P).m, top(P).f, NULL, FALSE, FALSE, UNINIT)), TRUE)

start_array_field(P, f) ==
  IF ~upb_fielddef_isseq(f)
  THEN Ret(Report(P, "Array specified for non-repeated field"), FALSE)
  ELSE start_array_push(check_stack(P), f)

start_array(P) ==
  start_array_field(DerefF(UPB_ASSERT(P, top(P).f # NULL)), TopF(P))

\* end_array without p->top--.
end_array_keep(P) ==
  end_subobject_emit(DerefF(UPB_ASSERT(P, Len(P.stack) > 1)), "endseq")

end_array(P) ==
  end_subobject_emit(DerefF(Pop(UPB_ASSERT(P, Len(P.stack) > 1))), "endseq")

\* start_object without the test of is_map.
start_object_always(P) == Emit(P, "startmsg", Len(P.stack), "-", <<>>, FALSE)

start_object(P) ==
  IF ~top(P).is_map
  THEN Emit(P, "startmsg", Len(P.stack), "-", <<>>, FALSE)
  ELSE P

\* end_object after upb_sink_endmsg: if (!upb_ok(&status)) the error is
\* reported; end_object returns nothing.
end_object_status(P) ==
  IF ~P.sink_ok THEN Report(P, "sink: endmsg failed") ELSE P

end_object(P) ==
  IF ~top(P).is_map THEN end_object_status(SinkEndmsg(P, Len(P.stack)))
  ELSE P

(***************************************************************************)
(* The Ragel machine, compiled by hand from the grammar.  A state is       *)
(* <<machine, name>>; a transition names its target and the actions on it  *)
(* in the order Ragel runs them (outer entering actions before the inner   *)
(* fcall, leaving actions before the entering actions of what follows).    *)
(***************************************************************************)
ErrorState == <<"error", "error">>

T(m, n, acts) == [to |-> <<m, n>>, acts |-> acts]
NoTrans == [to |-> ErrorState, acts |-> <<>>]

\* object = "{" ws >start_object (member ("," member)*)? "}" >end_object
\* member = ws string >start_member @end_membername ws ":" ws
\*          value2 %end_member ws
ObjectTrans(m, n, c) ==
  CASE n = "obj_open" ->
         IF isspace(c) THEN T(m, "obj_ws", <<"start_object">>)
         ELSE IF c = 34
         THEN T(m, "obj_name", <<"start_object", "start_member", "fcall_string">>)
         ELSE IF c = 125 THEN T(m, "obj_done", <<"start_object", "end_object">>)
         ELSE NoTrans
    [] n = "obj_ws" ->
         IF isspace(c) THEN T(m, "obj_ws", <<>>)
         ELSE IF c = 34 THEN T(m, "obj_name", <<"start_member", "fcall_string">>)
         ELSE IF c = 125 THEN T(m, "obj_done", <<"end_object">>)
         ELSE NoTrans
    [] n = "obj_name" ->
         IF c = 34 THEN T(m, "obj_aftername", <<"end_membername">>) ELSE NoTrans
    [] n = "obj_aftername" ->
         IF isspace(c) THEN T(m, "obj_aftername", <<>>)
         ELSE IF c = 58 THEN T(m, "obj_colon", <<>>)
         ELSE NoTrans
    [] n = "obj_colon" ->
         IF isspace(c) THEN T(m, "obj_colon", <<>>)
         ELSE IF c \notin {93, 125} THEN T(m, "obj_val_done", <<"fcall_value">>)
         ELSE NoTrans
    [] n = "obj_val_done" ->
         IF isspace(c) THEN T(m, "obj_val_ws", <<"end_member">>)
         ELSE IF c = 44 THEN T(m, "obj_comma", <<"end_member">>)
         ELSE IF c = 125 THEN T(m, "obj_done", <<"end_member", "end_object">>)
         ELSE NoTrans
    [] n = "obj_val_ws" ->
         IF isspace(c) THEN T(m, "obj_val_ws", <<>>)
         ELSE IF c = 44 THEN T(m, "obj_comma", <<>>)
         ELSE IF c = 125 THEN T(m, "obj_done", <<"end_object">>)
         ELSE NoTrans
    [] n = "obj_comma" ->
         IF isspace(c) THEN T(m, "obj_comma", <<>>)
         ELSE IF c = 34 THEN T(m, "obj_name", <<"start_member", "fcall_string">>)
         ELSE NoTrans
    [] OTHER -> NoTrans

\* main := ws object ws
MainTrans(n, c) ==
  CASE n = "start" ->
         IF isspace(c) THEN T("main", "start", <<>>)
         ELSE IF c = 123 THEN T("main", "obj_open", <<>>)
         ELSE NoTrans
    [] n = "obj_done" ->
         IF isspace(c) THEN T("main", "obj_done", <<>>) ELSE NoTrans
    [] OTHER -> ObjectTrans("main", n, c)

\* The letters of "true", "false" and "null" after the first.
Keyword(n, c) ==
  CASE n = "t1" /\ c = 114 -> "t2"
    [] n = "t2" /\ c = 117 -> "t3"
    [] n = "t3" /\ c = 101 -> "true_done"
    [] n = "f1" /\ c = 97 -> "f2"
    [] n = "f2" /\ c = 108 -> "f3"
    [] n = "f3" /\ c = 115 -> "f4"
    [] n = "f4" /\ c = 101 -> "false_done"
    [] n = "n1" /\ c = 117 -> "n2"
    [] n = "n2" /\ c = 108 -> "n3"
    [] n = "n3" /\ c = 108 -> "null_done"
    [] OTHER -> "none"

\* array = "[" >start_array ws (element ("," element)*)? "]" >end_array
\* element = ws value2 ws
ArrayTrans(n, c) ==
  CASE n = "arr_open" ->
         IF isspace(c) THEN T("value", "arr_open", <<>>)
         ELSE IF c = 93 THEN T("value", "arr_done", <<"end_array">>)
         ELSE IF c # 125 THEN T("value", "arr_elem_done", <<"fcall_value">>)
         ELSE NoTrans
    [] n = "arr_elem_done" ->
         IF isspace(c) THEN T("value", "arr_elem_done", <<>>)
         ELSE IF c = 44 THEN T("value", "arr_comma", <<>>)
         ELSE IF c = 93 THEN T("value", "arr_done", <<"end_array">>)
         ELSE NoTrans
    [] n = "arr_comma" ->
         IF isspace(c) THEN T("value", "arr_comma", <<>>)
         ELSE IF c \notin {93, 125}
         THEN T("value", "arr_elem_done", <<"fcall_value">>)
         ELSE NoTrans
    [] OTHER -> NoTrans

\* value_machine := value <: any >{ fhold; fret; }
ValueTrans(n, c) ==
  CASE n = "start" ->
         IF isdigit(c) \/ c = 45
         THEN T("value", "num_done", <<"start_number", "fcall_number">>)
         ELSE IF c = 34
         THEN T("value", "str_open", <<"start_stringval", "fcall_string">>)
         ELSE IF c = 116 THEN T("value", "t1", <<>>)
         ELSE IF c = 102 THEN T("value", "f1", <<>>)
         ELSE IF c = 110 THEN T("value", "n1", <<>>)
         ELSE IF c = 123 THEN T("value", "obj_open", <<"start_subobject">>)
         ELSE IF c = 91 THEN T("value", "arr_open", <<"start_array">>)
         ELSE NoTrans
    [] n = "num_done" -> T("value", "ret", <<"end_number", "fret">>)
    [] n = "str_open" ->
         IF c = 34 THEN T("value", "str_done", <<"end_stringval">>) ELSE NoTrans
    [] n = "str_done" -> T("value", "ret", <<"fret">>)
    [] n = "true_done" -> T("value", "ret", <<"putbool_true", "fret">>)
    [] n = "false_done" -> T("value", "ret", <<"putbool_false", "fret">>)
    [] n = "null_done" -> T("value", "ret", <<"null", "fret">>)
    [] n = "obj_done" -> T("value", "ret", <<"end_subobject", "fret">>)
    [] n = "arr_done" -> T("value", "ret", <<"fret">>)
    [] n \in {"t1", "t2", "t3", "f1", "f2", "f3", "f4", "n1", "n2", "n3"} ->
         IF Keyword(n, c) # "none" THEN T("value", Keyword(n, c), <<>>)
         ELSE NoTrans
    [] n \in {"arr_open", "arr_elem_done", "arr_comma"} -> ArrayTrans(n, c)
    [] OTHER -> ObjectTrans("value", n, c)

\* string_machine := (text | unicode_char | escape_char)** '"' @{ fhold; fret; }
StringTrans(n, c) ==
  CASE n = "start" ->
         IF c = 34 THEN T("string", "ret", <<"fret">>)
         ELSE IF c = 92 THEN T("string", "esc", <<>>)
         ELSE T("string", "text", <<"start_text">>)
    [] n = "text" ->
         IF c = 34 THEN T("string", "ret", <<"end_text", "fret">>)
         ELSE IF c = 92 THEN T("string", "esc", <<"end_text">>)
         ELSE T("string", "text", <<>>)
    [] n = "esc" ->
         IF c = 117 THEN T("string", "u0", <<>>)
         ELSE IF c \in {114, 116, 98, 102, 110, 34, 47, 92}
         THEN T("string", "start", <<"escape">>)
         ELSE NoTrans
    [] n = "u0" ->
         IF isxdigit(c) THEN T("string", "u1", <<"start_hex", "hexdigit">>)
         ELSE NoTrans
    [] n = "u1" ->
         IF isxdigit(c) THEN T("string", "u2", <<"hexdigit">>) ELSE NoTrans
    [] n = "u2" ->
         IF isxdigit(c) THEN T("string", "u3", <<"hexdigit">>) ELSE NoTrans
    [] n = "u3" ->
         IF isxdigit(c) THEN T("string", "uend", <<"hexdigit">>) ELSE NoTrans
    [] n = "uend" ->
         IF c = 34 THEN T("string", "ret", <<"end_hex", "fret">>)
         ELSE IF c = 92 THEN T("string", "esc", <<"end_hex">>)
         ELSE T("string", "text", <<"end_hex", "start_text">>)
    [] OTHER -> NoTrans

\* number_machine := ("-"? integer decimal? exponent?) <: any >{ fhold; fret; }
NumberTrans(n, c) ==
  CASE n = "start" ->
         IF c = 45 THEN T("number", "minus", <<>>)
         ELSE IF c = 48 THEN T("number", "zero", <<>>)
         ELSE IF c \in 49..57 THEN T("number", "int", <<>>)
         ELSE NoTrans
    [] n = "minus" ->
         IF c = 48 THEN T("number", "zero", <<>>)
         ELSE IF c \in 49..57 THEN T("number", "int", <<>>)
         ELSE NoTrans
    [] n = "zero" ->
         IF c = 46 THEN T("number", "dot", <<>>)
         ELSE IF c \in {101, 69} THEN T("number", "e", <<>>)
         ELSE T("number", "ret", <<"fret">>)
    [] n = "int" ->
         IF isdigit(c) THEN T("number", "int", <<>>)
         ELSE IF c = 46 THEN T("number", "dot", <<>>)
         ELSE IF c \in {101, 69} THEN T("number", "e", <<>>)
         ELSE T("number", "ret", <<"fret">>)
    [] n = "dot" ->
         IF isdigit(c) THEN T("number", "frac", <<>>) ELSE NoTrans
    [] n = "frac" ->
         IF isdigit(c) THEN T("number", "frac", <<>>)
         ELSE IF c \in {101, 69} THEN T("number", "e", <<>>)
         ELSE T("number", "ret", <<"fret">>)
    [] n = "e" ->
         IF c \in {43, 45} THEN T("number", "esign", <<>>)
         ELSE IF isdigit(c) THEN T("number", "exp", <<>>)
         ELSE NoTrans
    [] n = "esign" ->
         IF isdigit(c) THEN T("number", "exp", <<>>) ELSE NoTrans
    [] n = "exp" ->
         IF isdigit(c) THEN T("number", "exp", <<>>)
         ELSE T("number", "ret", <<"fret">>)
    [] OTHER -> NoTrans

Trans(cs, c) ==
  CASE cs[1] = "main" -> MainTrans(cs[2], c)
    [] cs[1] = "value" -> ValueTrans(cs[2], c)
    [] cs[1] = "string" -> StringTrans(cs[2], c)
    [] cs[1] = "number" -> NumberTrans(cs[2], c)
    [] OTHER -> NoTrans

(***************************************************************************)
(* The generated exec loop.                                                *)
(***************************************************************************)
\* CHECK_RETURN_TOP(x): if (!(x)) goto error
CHECK_RETURN_TOP(P) == IF P.ret THEN P ELSE [P EXCEPT !.goto_error = TRUE]

\* fcall: stack[top++] = cs; cs = entry.  Ragel emits no bound check: with
\* top = UPB_JSON_MAX_DEPTH the store is past the end of parser_stack.
fcall(P, entry) ==
  IF Len(P.parser_stack) >= UPB_JSON_MAX_DEPTH
  THEN [P EXCEPT !.stack_oob = TRUE,
                 !.crash = IF P.crash = "none" THEN "ub" ELSE P.crash,
                 !.jumped = TRUE]
  ELSE [P EXCEPT !.parser_stack = Append(@, P.cs), !.cs = <<entry, "start">>,
                 !.jumped = TRUE]

\* fret: cs = stack[--top]
fret(P) ==
  IF Len(P.parser_stack) = 0
  THEN [P EXCEPT !.crash = IF P.crash = "none" THEN "ub" ELSE P.crash,
                 !.jumped = TRUE]
  ELSE [P EXCEPT !.cs = P.parser_stack[Len(P.parser_stack)],
                 !.parser_stack = SubSeq(@, 1, Len(@) - 1),
                 !.jumped = TRUE]

\* fhold: p--
fhold(P) == [P EXCEPT !.p = @ - 1]

\* One embedded action of the grammar, p being the current input position.
Action(P, a) ==
  CASE a = "start_object" -> start_object(P)
    [] a = "end_object" -> end_object(P)
    [] a = "start_member" -> start_member(P)
    [] a = "end_membername" -> CHECK_RETURN_TOP(end_membername(P))
    [] a = "end_member" -> end_member(P)
    [] a = "start_number" -> start_number(P, P.p)
    [] a = "end_number" -> CHECK_RETURN_TOP(end_number(P, P.p))
    [] a = "start_stringval" -> CHECK_RETURN_TOP(start_stringval(P))
    [] a = "end_stringval" -> CHECK_RETURN_TOP(end_stringval(P))
    [] a = "putbool_true" -> CHECK_RETURN_TOP(parser_putbool(P, TRUE))
    [] a = "putbool_false" -> CHECK_RETURN_TOP(parser_putbool(P, FALSE))
    [] a = "null" -> P
    [] a = "start_subobject" -> CHECK_RETURN_TOP(start_subobject(P))
    [] a = "end_subobject" -> end_subobject(P)
    [] a = "start_array" -> CHECK_RETURN_TOP(start_array(P))
    [] a = "end_array" -> end_array(P)
    [] a = "start_text" -> start_text(P, P.p)
    [] a = "end_text" -> CHECK_RETURN_TOP(end_text(P, P.p))
    [] a = "start_hex" -> start_hex(P)
    [] a = "hexdigit" -> hexdigit(P, P.p)
    [] a = "end_hex" -> CHECK_RETURN_TOP(end_hex(P))
    [] a = "escape" -> CHECK_RETURN_TOP(escape(P, P.p))
    [] a = "fcall_number" -> fcall(fhold(P), "number")
    [] a = "fcall_value" -> fcall(fhold(P), "value")
    [] a = "fcall_string" -> fcall(P, "string")
    [] a = "fret" -> fret(fhold(P))

\* The actions that call a callback of the parser (the others are fcall, fret
\* and the empty action of null).
IsCallback(a) ==
  a \notin {"fcall_number", "fcall_value", "fcall_string", "fret", "null"}

\* The actions of one transition, in order, until one jumps away (goto
\* error, fcall, fret) or the process dies.
RECURSIVE RunActions(_, _, _)
RunActions(P, acts, i) ==
  IF i > Len(acts) \/ P.goto_error \/ P.jumped \/ P.crash # "none" THEN P
  ELSE RunActions([Action(P, acts[i]) EXCEPT
                     !.nactions = IF IsCallback(acts[i]) THEN @ + 1 ELSE @],
                  acts, i + 1)

\* The end of a round of the exec loop: p++ unless the machine is in its
\* error state or a callback returned false.
ExecAdvance(P) ==
  IF P.goto_error \/ P.cs = ErrorState \/ P.crash # "none" THEN P
  ELSE [P EXCEPT !.p = @ + 1]

\* One round of the exec loop on the byte at p: the transition is taken (cs
\* is the target while its actions run); p advances unless the machine is in
\* its error state or a callback returned false.
ExecChar(P) ==
  ExecAdvance(RunActions([P EXCEPT !.cs = Trans(P.cs, doc[P.p + 1]).to,
                                   !.jumped = FALSE],
                         Trans(P.cs, doc[P.p + 1]).acts, 1))

\* Whether the exec loop of the running call is over.
ExecDone(P) ==
  P.p = P.pe \/ P.cs = ErrorState \/ P.goto_error \/ P.crash # "none"

\* parse() up to the exec loop: the locals, the handle, capture_resume.
ParseEnter(P, start, size) ==
  capture_resume([P EXCEPT !.call = @ + 1, !.buf = start, !.p = start,
                           !.pe = start + size, !.goto_error = FALSE,
                           !.nactions = 0, !.nerrors0 = Len(P.errors),
                           !.err_events = -1, !.err_actions = -1],
                 start)

\* The label error of parse(): the state is saved and p - buf returned.
ParseRet(P) == [P EXCEPT !.returned = P.p - P.buf]

\* parse() after the exec loop: the parse error or capture_suspend, and at
\* the label error the state is saved and p - buf returned.
ParseLeave(P) ==
  ParseRet(IF P.goto_error \/ P.crash # "none" THEN P
           ELSE IF P.p # P.pe THEN Report(P, "Parse error")
           ELSE capture_suspend(P))

json_parser_reset ==
  [stack |-> <<Frame("Root", NULL, "Root", FALSE, FALSE, UNINIT)>>,
   cs |-> <<"main", "start">>,
   parser_stack |-> <<>>,
   accumulated |-> NullPtr, accumulated_len |-> 0, aliased |-> <<>>,
   accumulate_buf |-> <<>>, accumulate_buf_size |-> 0,
   multipart_state |-> MULTIPART_INACTIVE, string_selector |-> "-",
   capture |-> NullPtr, digit |-> 0, errno |-> "0",
   call |-> 0, buf |-> 0, p |-> 0, pe |-> 0, returned |-> 0,
   ret |-> TRUE, goto_error |-> FALSE, jumped |-> FALSE,
   crash |-> "none", stack_oob |-> FALSE, stale_read |-> FALSE,
   allocs |-> 0, endmsgs |-> 0, sink_ok |-> TRUE,
   nactions |-> 0, nerrors0 |-> 0, err_events |-> -1, err_actions |-> -1,
   events |-> <<>>, errors |-> <<>>]

(***************************************************************************)
(* The caller (the bytes-sink collaborator) and the actions.               *)
(***************************************************************************)
\* The most parse() calls the caller makes for one document.
MaxChunks == 3

CfgBase ==
  [ndebug |-> TRUE, stale |-> "kept", long_bits |-> 64, endmsg_fail |-> 0,
   oom_at |-> 0, retry |-> FALSE, min_chunk |-> 1, underflow_erange |-> FALSE]

CallerInit == [off |-> 0, size |-> 0, calls |-> 0, rets |-> <<>>]

\* The caller calls parse(buf, size) with the next size bytes of the document.
ParseBegin(size) ==
  /\ pc = "idle"
  /\ caller.calls < MaxChunks
  /\ caller.off + size <= Len(doc)
  /\ parser' = ParseEnter(parser, caller.off, size)
  /\ caller' = [caller EXCEPT !.size = size, !.calls = @ + 1]
  /\ pc' = "exec"
  /\ UNCHANGED <<doc, cfg>>

\* One round of the exec loop of the running parse() call.
ExecStep ==
  /\ pc = "exec"
  /\ ~ExecDone(parser)
  /\ parser' = ExecChar(parser)
  /\ UNCHANGED <<doc, cfg, pc, caller>>

\* What is left in the parser between two parse() calls.
Saved(P) ==
  [stack |-> P.stack, accumulated |-> P.accumulated,
   accumulated_len |-> P.accumulated_len, content |-> AccBytes(P),
   multipart_state |-> P.multipart_state, capture |-> P.capture]

\* What the caller can tell of a parse() call that returned: the length it
\* passed, the count returned, the errors env received during the call, the
\* events the sinks had received by then, and the parser as it was left.
Returned(P, size) ==
  [size |-> size, ret |-> P.returned, nerr |-> Len(P.errors) - P.nerrors0,
   nev |-> Len(P.events), cs |-> P.cs, saved |-> Saved(P)]

\* The rest of parse() and its return to the caller, who halts after a short
\* return unless cfg.retry.
ParseReturn ==
  /\ pc = "exec"
  /\ ExecDone(parser)
  /\ parser' = ParseLeave(parser)
  /\ caller' = [caller EXCEPT
                  !.off = @ + parser'.returned,
                  !.rets = Append(@, Returned(parser', caller.size))]
  /\ pc' = IF parser'.crash # "none" THEN "halt"
           ELSE IF parser'.returned < caller.size /\ ~cfg.retry THEN "halt"
           ELSE "idle"
  /\ UNCHANGED <<doc, cfg>>

\* The lengths the caller may pass: cfg.min_chunk or more, or all the rest.
ChunkSizes ==
  (cfg.min_chunk..Len(doc)) \cup ({Len(doc) - caller.off} \ {0})

Next ==
  \/ \E size \in ChunkSizes : ParseBegin(size)
  \/ ExecStep
  \/ ParseReturn

InitWith(docs, cfgs) ==
  /\ doc \in docs
  /\ cfg \in cfgs
  /\ parser = json_parser_reset
  /\ pc = "idle"
  /\ caller = CallerInit

\* A whole parse() call as one step, and the document delivered in one call.
RECURSIVE ExecAll(_)
ExecAll(P) == IF ExecDone(P) THEN P ELSE ExecAll(ExecChar(P))

ParseWhole(P, start, size) == ParseLeave(ExecAll(ParseEnter(P, start, size)))

SingleChunk == ParseWhole(json_parser_reset, 0, Len(doc))

(***************************************************************************)
(* Documents delivered in chunks: well-formed documents of the schema, the *)
(* seams anywhere, in builds with and without assertions, the memory of a  *)
(* chunk that was returned either kept or rewritten by its owner.          *)
(***************************************************************************)
ChunkDocs ==
  { \* {"a":12345}
    B(<<"{", "\"", "a", "\"", ":", "1", "2", "3", "4", "5", "}">>),
    \* {"s":"hi"}
    B(<<"{", "\"", "s", "\"", ":", "\"", "h", "i", "\"", "}">>),
    \* {"m":{"a\u0062":1}}
    B(<<"{", "\"", "m", "\"", ":", "{", "\"", "a", "\\", "u", "0", "0", "6",
        "2", "\"", ":", "1", "}", "}">>),
    \* {"t":true}
    B(<<"{", "\"", "t", "\"", ":", "t", "r", "u", "e", "}">>),
    \* {"b":"aGk="}
    B(<<"{", "\"", "b", "\"", ":", "\"", "a", "G", "k", "=", "\"", "}">>) }

ChunkCfgs ==
  {[CfgBase EXCEPT !.stale = s, !.ndebug = n] :
     s \in {"kept", "clobbered"}, n \in BOOLEAN}

InitChunk == InitWith(ChunkDocs, ChunkCfgs)

SpecChunk == InitChunk /\ [][Next]_vars

\* The caller is done with the document: every byte was consumed, or a
\* parse() call made it halt.
Over == (pc = "idle" /\ caller.off = Len(doc)) \/ pc = "halt"

\* Some parse() call returned with the machine inside a quoted string.
SeamInString ==
  \E i \in 1..Len(caller.rets) : caller.rets[i].cs[1] = "string"

\* The events without the buffer handle, consecutive putstring events of one
\* sink joined into one.
RECURSIVE Joined(_, _)
Joined(evs, out) ==
  IF Len(evs) = 0 THEN out
  ELSE IF /\ Len(out) > 0
          /\ evs[1].op = "putstring"
          /\ out[Len(out)].op = "putstring"
          /\ out[Len(out)].sink = evs[1].sink
  THEN Joined(Tail(evs),
              [out EXCEPT ![Len(out)].val = @ \o evs[1].val])
  ELSE Joined(Tail(evs),
              Append(out, [op |-> evs[1].op, sink |-> evs[1].sink,
                           f |-> evs[1].f, val |-> evs[1].val]))

C2_AsStated == Over => Joined(parser.events, <<>>) = Joined(SingleChunk.events, <<>>)

\* C5 as stated: when a parse() call returns, the accumulator's pointer is
\* NULL or the parser's own buffer, and no parse() call reads through a
\* pointer into the chunk of an earlier call.
C5_AsStated ==
  /\ \A i \in 1..Len(caller.rets) :
       caller.rets[i].saved.accumulated.kind \in {"NULL", "accumulate_buf"}
  /\ ~parser.stale_read

(***************************************************************************)
(* Deep nesting: documents that open UPB_JSON_MAX_DEPTH objects and then    *)
(* push once more, each delivered as one chunk that may stop early.         *)
(***************************************************************************)
RECURSIVE Times(_, _)
Times(n, s) == IF n = 0 THEN <<>> ELSE s \o Times(n - 1, s)

\* n objects opened one inside the other through field c: {"c":{"c": ... {
Opened(n) ==
  Times(n - 1, B(<<"{", "\"", "c", "\"", ":">>)) \o B(<<"{">>)

Closed(n) == Times(n, B(<<"}">>))

DepthDocs ==
  { \* 64 objects, all closed
    Opened(UPB_JSON_MAX_DEPTH) \o Closed(UPB_JSON_MAX_DEPTH),
    \* 64 objects and a 65th opening brace
    Opened(UPB_JSON_MAX_DEPTH) \o B(<<"\"", "c", "\"", ":", "{">>),
    \* 64 objects, then "s":"x"
    Opened(UPB_JSON_MAX_DEPTH)
      \o B(<<"\"", "s", "\"", ":", "\"", "x", "\"">>),
    \* 64 objects, then "r":[
    Opened(UPB_JSON_MAX_DEPTH) \o B(<<"\"", "r", "\"", ":", "[">>),
    \* 63 objects, then "m":{"k":1
    Opened(UPB_JSON_MAX_DEPTH - 1)
      \o B(<<"\"", "m", "\"", ":", "{", "\"", "k", "\"", ":", "1">>),
    \* 64 objects, then "a":1}
    Opened(UPB_JSON_MAX_DEPTH) \o B(<<"\"", "a", "\"", ":", "1", "}">>),
    \* 64 objects, then "e":"X"}
    Opened(UPB_JSON_MAX_DEPTH)
      \o B(<<"\"", "e", "\"", ":", "\"", "X", "\"", "}">>),
    \* 63 objects, then "s":"x","r":[]}, all closed
    Opened(UPB_JSON_MAX_DEPTH - 1)
      \o B(<<"\"", "s", "\"", ":", "\"", "x", "\"", ",",
             "\"", "r", "\"", ":", "[", "]">>)
      \o Closed(UPB_JSON_MAX_DEPTH - 1),
    \* 62 objects, then "m":{"k":1}}, all closed
    Opened(UPB_JSON_MAX_DEPTH - 2)
      \o B(<<"\"", "m", "\"", ":", "{", "\"", "k", "\"", ":", "1", "}">>)
      \o Closed(UPB_JSON_MAX_DEPTH - 2) }

\* The shortest first chunk of these deliveries.
DepthMinChunk == 310

DepthCfgs ==
  {[CfgBase EXCEPT !.min_chunk = DepthMinChunk, !.ndebug = n] : n \in BOOLEAN}

InitDepth == InitWith(DepthDocs, DepthCfgs)

SpecDepth == InitDepth /\ [][Next]_vars

\* The step reports "Nesting too deep".
TooDeep ==
  /\ Len(parser'.errors) > Len(parser.errors)
  /\ parser'.errors[Len(parser'.errors)] = "Nesting too deep"

\* C3: between 1 and 64 frames are in use in every state; a step that
\* reports "Nesting too deep" starts with 64 frames in use, leaves the frame
\* stack as it was and emits no event, and it is the only way a step that
\* starts with 64 frames can go on to a push; a step that adds a frame starts
\* with fewer than 64 frames and reports no "Nesting too deep".
C3_Step ==
  /\ Len(parser.stack) \in 1..UPB_JSON_MAX_DEPTH
  /\ Len(parser'.stack) \in 1..UPB_JSON_MAX_DEPTH
  /\ TooDeep => /\ Len(parser.stack) = UPB_JSON_MAX_DEPTH
                /\ parser'.stack = parser.stack
                /\ parser'.events = parser.events
  /\ Len(parser'.stack) > Len(parser.stack) =>
       /\ Len(parser.stack) < UPB_JSON_MAX_DEPTH
       /\ ~TooDeep

C3_FrameBound == [][C3_Step]_vars

\* 64 frames are in use (the 64th was pushed with 63 in use) and the one
\* error reported is the rejection of a further push.
C3_Witness ==
  /\ Len(parser.stack) = UPB_JSON_MAX_DEPTH
  /\ parser.errors = <<"Nesting too deep">>
  /\ parser.goto_error
  /\ pc = "exec"

\* C4 as stated: no entry of parser_stack is ever written at index 64 or
\* beyond.
C4_AsStated == ~parser.stack_oob

(***************************************************************************)
(* Documents that make the parser report an error, delivered in chunks to   *)
(* a caller that halts after a short return or (cfg.retry) calls again      *)
(* with the bytes that were not consumed; the sink can fail its first       *)
(* endmsg.                                                                  *)
(***************************************************************************)
ErrDocs ==
  { \* {"i":{"a":"s","b":"t"}}
    B(<<"{", "\"", "i", "\"", ":", "{", "\"", "a", "\"", ":", "\"", "s", "\"",
        ",", "\"", "b", "\"", ":", "\"", "t", "\"", "}", "}">>),
    \* {"k":{"x":1}}
    B(<<"{", "\"", "k", "\"", ":", "{", "\"", "x", "\"", ":", "1", "}", "}">>),
    \* {"z":{"q":1}}
    B(<<"{", "\"", "z", "\"", ":", "{", "\"", "q", "\"", ":", "1", "}", "}">>),
    \* {"zz":1}
    B(<<"{", "\"", "z", "z", "\"", ":", "1", "}">>),
    \* {"a":1}
    B(<<"{", "\"", "a", "\"", ":", "1", "}">>),
    \* {"d":1.x}
    B(<<"{", "\"", "d", "\"", ":", "1", ".", "x", "}">>),
    \* {"a":99999999999}
    B(<<"{", "\"", "a", "\"", ":", "9", "9", "9", "9", "9", "9", "9", "9",
        "9", "9", "9", "}">>),
    \* {"a":"x"}
    B(<<"{", "\"", "a", "\"", ":", "\"", "x", "\"", "}">>) }

ErrCfgs ==
  {[CfgBase EXCEPT !.ndebug = n, !.retry = r, !.endmsg_fail = e] :
     n \in BOOLEAN, r \in BOOLEAN, e \in {0, 1}}

InitErr == InitWith(ErrDocs, ErrCfgs)

SpecErr == InitErr /\ [][Next]_vars

\* The documents of deep nesting delivered to a caller that calls again after
\* a short return.
RetryCfgs ==
  {[CfgBase EXCEPT !.min_chunk = DepthMinChunk, !.retry = TRUE, !.ndebug = n] :
     n \in BOOLEAN}

InitRetry == InitWith(DepthDocs, RetryCfgs)

SpecRetry == InitRetry /\ [][Next]_vars

\* C6 as stated: once an error has been reported in a parse() call, that
\* call emits no further sink event and runs no further callback.
C6_AsStated ==
  (parser.crash = "none" /\ parser.err_events >= 0) =>
    /\ Len(parser.events) = parser.err_events
    /\ parser.nactions <= parser.err_actions + 1

\* C7 as stated: a parse() call returns less than the chunk length exactly
\* when an error was reported during it, and never more than the length.
C7_AsStated ==
  parser.crash = "none" =>
    \A i \in 1..Len(caller.rets) :
      /\ (caller.rets[i].ret < caller.rets[i].size) <=> (caller.rets[i].nerr > 0)
      /\ caller.rets[i].ret <= caller.rets[i].size

\* C8 as stated: every parse() call after one that stopped short on an error
\* consumes 0 bytes, emits no event and leaves the frames, the accumulator,
\* the multipart state and the capture as they were.
C8_AsStated ==
  parser.crash = "none" =>
    \A i, j \in 1..Len(caller.rets) :
      (i < j /\ caller.rets[i].ret < caller.rets[i].size) =>
        /\ caller.rets[j].ret = 0
        /\ caller.rets[j].nev = caller.rets[i].nev
        /\ caller.rets[j].saved = caller.rets[i].saved

\* C9 as stated: env receives at most one error over all the parse() calls of
\* a document.
C9_AsStated == Len(parser.errors) <= 1

(***************************************************************************)
(* Integer literals at the limits of the integer types, as the value of a   *)
(* field and as the quoted key of a map, on platforms whose long has 32 or  *)
(* 64 bits.                                                                 *)
(***************************************************************************)
NumMags ==
  {<<1>>, INT32_MAX, INT32_MIN_MAG, UINT32_MAX, TWO_32, INT64_MAX,
   INT64_MIN_MAG, UINT64_MAX, TWO_64}

NumLits == {[neg |-> n, mag |-> m] : n \in BOOLEAN, m \in NumMags}

\* The field the literal is for: a field of Root, or the map whose key it is.
NumFields == {"a", "l", "u", "v", "i", "il", "iu", "iv"}

\* The field whose put event carries the literal.
LitField(f) ==
  IF upb_fielddef_ismap(f)
  THEN upb_msgdef_itof(upb_fielddef_msgsubdef(f), UPB_MAPENTRY_KEY)
  ELSE f

LitText(lit) ==
  (IF lit.neg THEN B(<<"-">>) ELSE <<>>)
    \o [i \in 1..Len(lit.mag) |-> 48 + lit.mag[i]]

\* {"f":lit}  or  {"f":{"lit":1}}  ({"i":{"lit":"s"}} for the map i)
NumDoc(f, lit) ==
  B(<<"{", "\"">>) \o FieldDefs[f].name \o B(<<"\"", ":">>)
    \o (IF upb_fielddef_ismap(f)
        THEN B(<<"{", "\"">>) \o LitText(lit) \o B(<<"\"", ":">>)
               \o (IF f = "i" THEN B(<<"\"", "s", "\"">>) ELSE B(<<"1">>))
               \o B(<<"}">>)
        ELSE LitText(lit))
    \o B(<<"}">>)

NumDocs == {NumDoc(f, lit) : f \in NumFields, lit \in NumLits}

\* The shortest chunk of these deliveries.
NumMinChunk == 12

NumCfgs ==
  {[CfgBase EXCEPT !.long_bits = w, !.min_chunk = NumMinChunk] :
     w \in {32, 64}}

InitNum == InitWith(NumDocs, NumCfgs)

SpecNum == InitNum /\ [][Next]_vars

\* T.min <= lit <= T.max
InRange(type, lit) ==
  CASE type = "INT32" ->
         NatLessEq(lit.mag, IF lit.neg THEN INT32_MIN_MAG ELSE INT32_MAX)
    [] type = "INT64" ->
         NatLessEq(lit.mag, IF lit.neg THEN INT64_MIN_MAG ELSE INT64_MAX)
    [] type = "UINT32" -> ~lit.neg /\ NatLessEq(lit.mag, UINT32_MAX)
    [] type = "UINT64" -> ~lit.neg /\ NatLessEq(lit.mag, UINT64_MAX)

\* The put events of field f.
PutsOf(f) ==
  {i \in 1..Len(parser.events) :
     parser.events[i].f = f /\ parser.events[i].op = PutName(upb_fielddef_type(f))}

\* C10 as stated: an emitted integer is the value of its literal and within
\* the range of the field's type, and a literal outside the range fails with
\* "error parsing number" and emits nothing.
C10_AsStated ==
  \A f \in NumFields, lit \in NumLits :
    doc = NumDoc(f, lit) =>
      /\ \A i \in PutsOf(LitField(f)) :
           /\ parser.events[i].val = IntVal(lit.neg, lit.mag)
           /\ InRange(upb_fielddef_type(LitField(f)), lit)
      /\ (Over /\ ~InRange(upb_fielddef_type(LitField(f)), lit)) =>
           /\ PutsOf(LitField(f)) = {}
           /\ \E e \in 1..Len(parser.errors) :
                parser.errors[e] = "error parsing number"

(***************************************************************************)
(* Number literals with a fraction or an exponent, as the value of integer, *)
(* enum, float and double fields.                                           *)
(***************************************************************************)
\* 1e999 is above the range of double, 1e-999 below it.
HugeLits == {B(<<"1", "e", "9", "9", "9">>)}
TinyLits == {B(<<"1", "e", "-", "9", "9", "9">>)}

FracLits ==
  { B(<<"1", "e", "6">>), B(<<"1", ".", "0">>), B(<<"1", "E", "+", "2">>),
    B(<<"-", "2", ".", "5", "e", "-", "3">>), B(<<"0", ".", "0", "5">>) }
    \cup HugeLits \cup TinyLits

IntFields == {"a", "l", "u", "v", "e"}
RealFields == {"d", "g"}

\* {"f":lit}
FloatDoc(f, lit) ==
  B(<<"{", "\"">>) \o FieldDefs[f].name \o B(<<"\"", ":">>) \o lit
    \o B(<<"}">>)

FloatDocs ==
  {FloatDoc(f, lit) : f \in IntFields \cup RealFields,
                      lit \in FracLits \cup {B(<<"7">>)}}

FloatCfgs == {[CfgBase EXCEPT !.underflow_erange = u] : u \in BOOLEAN}

InitFloat == InitWith(FloatDocs, FloatCfgs)

SpecFloat == InitFloat /\ [][Next]_vars

\* The only error is "error parsing number" and field f got no put event.
NumberRejected(f) ==
  /\ parser.errors = <<"error parsing number">>
  /\ PutsOf(f) = {}

\* No error, and field f got one put event, whose value is the text lit.
RealAccepted(f, lit) ==
  /\ parser.errors = <<>>
  /\ \E i \in 1..Len(parser.events) :
       PutsOf(f) = {i} /\ parser.events[i].val = lit

\* strtod reports a range error for lit.
RealRangeError(lit) ==
  lit \in HugeLits \/ (lit \in TinyLits /\ cfg.underflow_erange)

\* C11 (as amended): a literal with a fraction or an exponent never gives an
\* integer or enum field a put event and fails with "error parsing number";
\* for a float or double field the same literal is accepted with its text as
\* the value, unless strtod reports a range error for it (1e999; 1e-999
\* where an underflow sets errno), when it fails with "error parsing number"
\* as well.
C11_FractionExponent ==
  \A lit \in FracLits :
    /\ \A f \in IntFields :
         doc = FloatDoc(f, lit) =>
           /\ PutsOf(f) = {}
           /\ Over => NumberRejected(f)
    /\ \A f \in RealFields :
         (doc = FloatDoc(f, lit) /\ Over) =>
           IF RealRangeError(lit) THEN NumberRejected(f)
           ELSE RealAccepted(f, lit)

\* C11 as stated: a literal with a fraction or an exponent fails with "error
\* parsing number" and no put event for an integer or enum field, and is
\* accepted for a float or double field.
C11_AsStated ==
  \A lit \in FracLits :
    /\ \A f \in IntFields :
         doc = FloatDoc(f, lit) =>
           /\ PutsOf(f) = {}
           /\ Over => NumberRejected(f)
    /\ \A f \in RealFields :
         (doc = FloatDoc(f, lit) /\ Over) => RealAccepted(f, lit)

\* {"l":1e6} delivered in several calls was rejected at the end of the
\* number.
C11_Witness ==
  /\ doc = FloatDoc("l", B(<<"1", "e", "6">>))
  /\ pc = "halt"
  /\ Len(caller.rets) >= 2
  /\ NumberRejected("l")

(***************************************************************************)
(* Bytes fields: the standard padded base64 encoding of short byte strings. *)
(***************************************************************************)
\* The character of a 6-bit value in the base64 alphabet (RFC 4648).
B64Char(v) ==
  IF v < 26 THEN 65 + v
  ELSE IF v < 52 THEN 97 + (v - 26)
  ELSE IF v < 62 THEN 48 + (v - 52)
  ELSE IF v = 62 THEN 43
  ELSE 47

\* The padded base64 encoding of the byte string b.
RECURSIVE Base64Encode(_)
Base64Encode(b) ==
  IF Len(b) = 0 THEN <<>>
  ELSE IF Len(b) = 1
  THEN <<B64Char(b[1] \div 4), B64Char((b[1] % 4) * 16), 61, 61>>
  ELSE IF Len(b) = 2
  THEN <<B64Char(b[1] \div 4), B64Char((b[1] % 4) * 16 + b[2] \div 16),
         B64Char((b[2] % 16) * 4), 61>>
  ELSE <<B64Char(b[1] \div 4), B64Char((b[1] % 4) * 16 + b[2] \div 16),
         B64Char((b[2] % 16) * 4 + b[3] \div 64), B64Char(b[3] % 64)>>
         \o Base64Encode(SubSeq(b, 4, Len(b)))

\* The longest byte string encoded.
MaxBytes == 4

ByteVals == {0, 77, 255}

ByteStrings == UNION {[1..n -> ByteVals] : n \in 0..MaxBytes}

\* {"b":"text"}
BytesDoc(text) ==
  B(<<"{", "\"", "b", "\"", ":", "\"">>) \o text \o B(<<"\"", "}">>)

Base64Docs == {BytesDoc(Base64Encode(b)) : b \in ByteStrings}

\* The shortest chunk of these deliveries.
Base64MinChunk == 4

Base64Cfgs ==
  {[CfgBase EXCEPT !.ndebug = n, !.min_chunk = Base64MinChunk] :
     n \in BOOLEAN}

InitBase64 == InitWith(Base64Docs, Base64Cfgs)

SpecBase64 == InitBase64 /\ [][Next]_vars

IsPutstring(e) == e.op = "putstring"

\* The payloads of the putstring events, in order.
Payloads == SelectSeq(parser.events, IsPutstring)

RECURSIVE Flatten(_)
Flatten(ss) == IF Len(ss) = 0 THEN <<>> ELSE ss[1].val \o Flatten(Tail(ss))

\* The events are startmsg, startstr, putstring ..., endstr, endmsg.
BytesEventShape ==
  /\ Len(parser.events) = Len(Payloads) + 4
  /\ parser.events[1].op = "startmsg"
  /\ parser.events[2].op = "startstr"
  /\ \A i \in 3..(Len(parser.events) - 2) : parser.events[i].op = "putstring"
  /\ parser.events[Len(parser.events) - 1].op = "endstr"
  /\ parser.events[Len(parser.events)].op = "endmsg"

\* C12: once the padded base64 encoding of a byte string b has been parsed
\* as the value of the bytes field, no error was reported, the events are
\* startmsg, startstr, the putstring events, endstr, endmsg, the payloads of
\* the putstring events concatenated are b, and every payload has 3 bytes
\* but the last one, which has 1 or 2 when b ends in a padded group.
C12_Base64RoundTrip ==
  Over =>
    \A b \in ByteStrings :
      doc = BytesDoc(Base64Encode(b)) =>
        /\ parser.errors = <<>>
        /\ parser.crash = "none"
        /\ BytesEventShape
        /\ Flatten(Payloads) = b
        /\ \A i \in 1..Len(Payloads) :
             Len(Payloads[i].val) =
               IF i < Len(Payloads) THEN 3 ELSE ((Len(b) - 1) % 3) + 1

\* The four bytes 0, 77, 255, 77 (AE3/TQ==) arrived in several parse() calls
\* and were emitted as a payload of three bytes and one of one byte.
C12_Witness ==
  /\ doc = BytesDoc(Base64Encode(<<0, 77, 255, 77>>))
  /\ Over
  /\ Len(caller.rets) >= 2
  /\ Len(Payloads) = 2
  /\ Payloads[1].val = <<0, 77, 255>>
  /\ Payloads[2].val = <<77>>

(***************************************************************************)
(* Bytes fields: texts that are and are not padded base64.                  *)
(***************************************************************************)
B64Texts ==
  { B(<<"Q", "U", "J", "D">>), B(<<"Q", "U", "I", "=">>),
    B(<<"Q", "Q", "=", "=">>), B(<<"Q", "U", "J", "D", "Q", "Q", "=", "=">>),
    B(<<"Q", "Q", "=", "=", "Q", "U", "J", "D">>),
    B(<<"Q", "U", "I", "=", "Q", "U", "J", "D">>),
    B(<<"Q", "=", "J", "D">>), B(<<"=", "Q", "U", "J">>),
    B(<<"Q", "Q", "=", "D">>), B(<<"Q", "=", "=", "=">>),
    B(<<"Q", "U", "!", "D">>), B(<<"Q", "U", "J">>),
    B(<<"Q", "U", "J", "D", "Q">>) }

BadBase64Docs == {BytesDoc(t) : t \in B64Texts}

InitBadBase64 == InitWith(BadBase64Docs, Base64Cfgs)

SpecBadBase64 == InitBadBase64 /\ [][Next]_vars

InAlphabet(c) == c \in (65..90) \cup (97..122) \cup (48..57) \cup {43, 47}

\* = occurs only as the last character or the last two characters of t.
PaddingAtEnd(t) ==
  \A i \in 1..Len(t) :
    t[i] = 61 => (i = Len(t) \/ (i = Len(t) - 1 /\ t[Len(t)] = 61))

\* The value was decoded: no error, and endstr was emitted.
BytesDecoded ==
  /\ parser.errors = <<>>
  /\ \E i \in 1..Len(parser.events) : parser.events[i].op = "endstr"

\* The value was refused with one error, and endstr was not emitted.
BytesRefused ==
  /\ Len(parser.errors) = 1
  /\ \A i \in 1..Len(parser.events) : parser.events[i].op # "endstr"

\* C13 as stated: a bytes value is decoded exactly when its length is a
\* multiple of 4, its characters are of the alphabet or =, and = occurs only
\* at the end of the last group; otherwise it is refused without endstr,
\* with "Incorrect base64 padding" for a = elsewhere and "Non-base64
\* characters" for a character outside the alphabet.
C13_AsStated ==
  Over =>
    \A t \in B64Texts :
      doc = BytesDoc(t) =>
        IF /\ Len(t) % 4 = 0
           /\ \A i \in 1..Len(t) : InAlphabet(t[i]) \/ t[i] = 61
           /\ PaddingAtEnd(t)
        THEN BytesDecoded
        ELSE /\ BytesRefused
             /\ (\E i \in 1..Len(t) : ~InAlphabet(t[i]) /\ t[i] # 61) =>
                  parser.errors[1] = "Non-base64 characters in bytes field"
             /\ (/\ Len(t) % 4 = 0
                 /\ \A i \in 1..Len(t) : InAlphabet(t[i]) \/ t[i] = 61) =>
                  parser.errors[1] = "Incorrect base64 padding for field"

(***************************************************************************)
(* Map fields: an object with N members as the value of a map field,       *)
(* followed by a member of the enclosing message.                          *)
(***************************************************************************)
StringOps == <<"startstr", "putstring", "endstr">>

\* A member of a map object: its text, and the events of its key and value.
Member(text, ops) == [text |-> text, ops |-> ops]

MemK1 == Member(B(<<"\"", "k", "\"", ":", "1">>), StringOps \o <<"putint32">>)
MemJ2 == Member(B(<<"\"", "j", "\"", ":", "2">>), StringOps \o <<"putint32">>)
MemTrue ==
  Member(B(<<"\"", "t", "r", "u", "e", "\"", ":", "1">>),
         <<"putbool", "putint32">>)
Mem1S ==
  Member(B(<<"\"", "1", "\"", ":", "\"", "s", "\"">>),
         <<"putint32">> \o StringOps)
Mem2T ==
  Member(B(<<"\"", "2", "\"", ":", "\"", "t", "\"">>),
         <<"putint32">> \o StringOps)
MemKMsg ==
  Member(B(<<"\"", "k", "\"", ":", "{", "\"", "a", "\"", ":", "1", "}">>),
         StringOps \o
           <<"startsubmsg", "startmsg", "putint32", "endmsg", "endsubmsg">>)
MemKNull ==
  Member(B(<<"\"", "k", "\"", ":", "n", "u", "l", "l">>), StringOps)

MapCase(f, members) == [f |-> f, members |-> members]

MapCases ==
  { MapCase("m", <<>>), MapCase("m", <<MemK1>>), MapCase("m", <<MemK1, MemJ2>>),
    MapCase("m", <<MemKNull, MemJ2>>),
    MapCase("k", <<MemTrue>>), MapCase("i", <<Mem1S, Mem2T>>),
    MapCase("o", <<MemKMsg>>), MapCase("o", <<MemKMsg, MemKMsg>>) }

RECURSIVE MembersText(_)
MembersText(ms) ==
  IF ms = <<>> THEN <<>>
  ELSE IF Len(ms) = 1 THEN ms[1].text
  ELSE ms[1].text \o B(<<",">>) \o MembersText(Tail(ms))

\* {"f":{members},"a":7}
MapDoc(c) ==
  B(<<"{", "\"">>) \o FieldDefs[c.f].name \o B(<<"\"", ":", "{">>)
    \o MembersText(c.members)
    \o B(<<"}", ",", "\"", "a", "\"", ":", "7", "}">>)

MapDocs == {MapDoc(c) : c \in MapCases}

MapMinChunk == 6

MapCfgs ==
  {[CfgBase EXCEPT !.ndebug = n, !.min_chunk = MapMinChunk] : n \in BOOLEAN}

InitMap == InitWith(MapDocs, MapCfgs)

SpecMap == InitMap /\ [][Next]_vars

RECURSIVE GroupsOps(_)
GroupsOps(ms) ==
  IF ms = <<>> THEN <<>>
  ELSE <<"startsubmsg", "startmsg">> \o ms[1].ops
         \o <<"endmsg", "endsubmsg">> \o GroupsOps(Tail(ms))

\* The events of MapDoc(c), by name.
MapOps(c) ==
  <<"startmsg", "startseq">> \o GroupsOps(c.members)
    \o <<"endseq", "putint32", "endmsg">>

\* The events received, by name; a string value that arrives in several
\* putstring events (a seam inside the string) counts as one.
RECURSIVE EventOpsTo(_)
EventOpsTo(n) ==
  IF n = 0 THEN <<>>
  ELSE IF /\ n > 1
          /\ parser.events[n].op = "putstring"
          /\ parser.events[n - 1].op = "putstring"
  THEN EventOpsTo(n - 1)
  ELSE Append(EventOpsTo(n - 1), parser.events[n].op)

EventOps == EventOpsTo(Len(parser.events))

\* The events that the frame of the map (the second frame) receives are the
\* startsubmsg and endsubmsg of the map field, in turn.
MapFrameEvents(c) ==
  \A i \in 1..Len(parser.events) :
    parser.events[i].sink = 2 =>
      /\ parser.events[i].f = c.f
      /\ parser.events[i].op \in {"startsubmsg", "endsubmsg"}

\* The frame of the enclosing message receives startmsg, the startseq and
\* endseq of the map field, the value of the member after the map, endmsg.
OuterFrameEvents(c) ==
  SelectSeq(parser.events, LAMBDA e : e.sink = 1) =
    << [op |-> "startmsg", sink |-> 1, f |-> "-", val |-> <<>>,
        handle |-> FALSE],
       [op |-> "startseq", sink |-> 1, f |-> c.f, val |-> <<>>,
        handle |-> FALSE],
       [op |-> "endseq", sink |-> 1, f |-> c.f, val |-> <<>>,
        handle |-> FALSE],
       parser.events[Len(parser.events) - 1],
       [op |-> "endmsg", sink |-> 1, f |-> "-", val |-> <<>>,
        handle |-> FALSE] >>

\* C14: the object of a map field with N members emits startseq, N groups
\* startsubmsg(map field), startmsg, key events, value events, endmsg,
\* endsubmsg(map field), then endseq; its braces emit no startmsg or endmsg;
\* after it the frame depth is what it was before it (the next member's
\* value goes to the sink of the enclosing message's frame).
C14_MapEntryGroups ==
  Over =>
    \A c \in MapCases :
      doc = MapDoc(c) =>
        /\ parser.errors = <<>>
        /\ parser.crash = "none"
        /\ EventOps = MapOps(c)
        /\ MapFrameEvents(c)
        /\ OuterFrameEvents(c)
        /\ parser.events[Len(parser.events) - 1].f = "a"
        /\ Len(parser.stack) = 1

C14_Witness ==
  /\ doc = MapDoc(MapCase("i", <<Mem1S, Mem2T>>))
  /\ Over
  /\ Len(caller.rets) >= 2
  /\ Len(SelectSeq(parser.events, LAMBDA e : e.op = "endsubmsg" /\ e.f = "i"))
       = 2
  /\ parser.events[Len(parser.events) - 2].op = "endseq"

(***************************************************************************)
(* The frame stack against the nesting of the JSON text.                   *)
(***************************************************************************)
NestDocs ==
  { \* {"c":{"s":"x","r":[1,2]},"a":1}
    B(<<"{", "\"", "c", "\"", ":", "{", "\"", "s", "\"", ":", "\"", "x", "\"",
        ",", "\"", "r", "\"", ":", "[", "1", ",", "2", "]", "}", ",", "\"",
        "a", "\"", ":", "1", "}">>),
    \* {"q":[{"b":"QQ=="},{}],"t":true}
    B(<<"{", "\"", "q", "\"", ":", "[", "{", "\"", "b", "\"", ":", "\"", "Q",
        "Q", "=", "=", "\"", "}", ",", "{", "}", "]", ",", "\"", "t", "\"",
        ":", "t", "r", "u", "e", "}">>),
    MapDoc(MapCase("m", <<MemK1, MemJ2>>)),
    MapDoc(MapCase("i", <<Mem1S, Mem2T>>)),
    MapDoc(MapCase("o", <<MemKMsg>>)) }

NestMinChunk == 8

NestCfgs ==
  {[CfgBase EXCEPT !.ndebug = n, !.min_chunk = NestMinChunk] : n \in BOOLEAN}

InitNest == InitWith(NestDocs, NestCfgs)

SpecNest == InitNest /\ [][Next]_vars

\* The number of objects and arrays of text t that are open after its first
\* k bytes: i - 1 bytes were scanned, instr tells whether byte i is inside a
\* quoted string, n is the count so far.
RECURSIVE OpenScan(_, _, _, _, _)
OpenScan(t, k, i, instr, n) ==
  IF i > k THEN n
  ELSE IF instr
  THEN IF t[i] = 92 THEN OpenScan(t, k, i + 2, TRUE, n)
       ELSE OpenScan(t, k, i + 1, t[i] # 34, n)
  ELSE IF t[i] = 34 THEN OpenScan(t, k, i + 1, TRUE, n)
  ELSE IF t[i] \in {123, 91} THEN OpenScan(t, k, i + 1, FALSE, n + 1)
  ELSE IF t[i] \in {125, 93} THEN OpenScan(t, k, i + 1, FALSE, n - 1)
  ELSE OpenScan(t, k, i + 1, FALSE, n)

OpenAt(k) == OpenScan(doc, k, 1, FALSE, 0)

\* How many events e with Opens(e) the sinks have received, less those with
\* Closes(e).
Balance(Opens(_), Closes(_)) ==
  Len(SelectSeq(parser.events, Opens)) - Len(SelectSeq(parser.events, Closes))

\* String sub-frames in progress: startstr without its endstr.
OpenStrings ==
  Balance(LAMBDA e : e.op = "startstr", LAMBDA e : e.op = "endstr")

\* Map entries in progress: startsubmsg of a map field without its endsubmsg.
OpenMapEntries ==
  Balance(LAMBDA e : e.op = "startsubmsg" /\ upb_fielddef_ismap(e.f),
          LAMBDA e : e.op = "endsubmsg" /\ upb_fielddef_ismap(e.f))

\* The closing brace of a sub-object was consumed and the byte after it has
\* not been looked at: end_subobject is a leaving action.
PendingClose == parser.cs = <<"value", "obj_done">>

\* The parser is inside the top-level object of a document it has accepted
\* so far.
InsideDocument ==
  /\ parser.errors = <<>>
  /\ parser.crash = "none"
  /\ OpenAt(parser.p) >= 1

\* C15, amended: inside the top-level object the depth of the frame stack is
\* the number of open objects and arrays, plus the open string sub-frames,
\* plus the map entries in progress (plus one between the closing brace of
\* a sub-object and the byte after it).
C15_FrameDepth ==
  InsideDocument =>
    Len(parser.stack) =
      OpenAt(parser.p) + OpenStrings + OpenMapEntries
        + (IF PendingClose THEN 1 ELSE 0)

\* C15 as stated: the depth is the number of open objects and arrays plus
\* the open string sub-frames (the pop at the byte after a closing brace
\* allowed for).
C15_AsStated ==
  InsideDocument =>
    Len(parser.stack) =
      OpenAt(parser.p) + OpenStrings + (IF PendingClose THEN 1 ELSE 0)

\* Inside the string value of a member of a map: four frames, two braces.
C15_Witness ==
  /\ doc = MapDoc(MapCase("i", <<Mem1S, Mem2T>>))
  /\ InsideDocument
  /\ Len(parser.stack) = 4
  /\ OpenAt(parser.p) = 2
  /\ OpenStrings = 1
  /\ OpenMapEntries = 1

(***************************************************************************)
(* Enum fields given by name.                                              *)
(***************************************************************************)
EnumTexts ==
  { B(<<"X">>), B(<<"Y", "Z">>), B(<<"W">>), B(<<"x">>), B(<<"X", "Y">>),
    B(<<"Y">>), <<>> }

\* {"e":"text"}
EnumDoc(text) ==
  B(<<"{", "\"", "e", "\"", ":", "\"">>) \o text \o B(<<"\"", "}">>)

EnumDocs == {EnumDoc(t) : t \in EnumTexts}

EnumCfgs ==
  {[CfgBase EXCEPT !.ndebug = n, !.stale = s] :
     n \in BOOLEAN, s \in {"kept", "clobbered"}}

InitEnum == InitWith(EnumDocs, EnumCfgs)

SpecEnum == InitEnum /\ [][Next]_vars

\* The closing quote of the value was consumed (9 bytes come before it).
EnumValueDone(t) == parser.p >= 7 + Len(t) \/ parser.errors # <<>>

\* C16 as stated: a quoted symbolic name of the enum emits exactly one putint32 of its
\* number on the current frame, with no frame pushed and no startstr or
\* endstr; any other quoted text fails with "Enum value unknown" and emits
\* nothing; multipart is INACTIVE afterwards in both cases.
C16_AsStated ==
  \A t \in EnumTexts :
    doc = EnumDoc(t) =>
      /\ Len(parser.stack) = 1
      /\ \A i \in 1..Len(parser.events) :
           parser.events[i].op \notin {"startstr", "putstring", "endstr"}
      /\ parser.crash = "none"
      /\ (pc # "exec" /\ EnumValueDone(t)) =>
           /\ parser.multipart_state = MULTIPART_INACTIVE
           /\ IF \E pr \in EnumE : pr[1] = t
              THEN /\ parser.errors = <<>>
                   /\ \E pr \in EnumE :
                        /\ pr[1] = t
                        /\ SubSeq(parser.events, 1, 2) =
                             << [op |-> "startmsg", sink |-> 1, f |-> "-",
                                 val |-> <<>>, handle |-> FALSE],
                                [op |-> "putint32", sink |-> 1, f |-> "e",
                                 val |-> IntVal(FALSE, <<pr[2]>>),
                                 handle |-> FALSE] >>
                   /\ Over => Len(parser.events) = 3
              ELSE /\ parser.errors = <<"Enum value unknown">>
                   /\ Len(parser.events) = 1
                   /\ pc = "halt"

(***************************************************************************)
(* Member names that the message does not have.                            *)
(***************************************************************************)
\* A document, the offset of the closing quote of its unknown member name,
\* and the number of events that come before that member.
NameCase(text, stop, nev) == [text |-> text, stop |-> stop, nev |-> nev]

NameCases ==
  { \* {"zz":1}
    NameCase(B(<<"{", "\"", "z", "z", "\"", ":", "1", "}">>), 4, 1),
    \* {"a":1,"zz":2}
    NameCase(B(<<"{", "\"", "a", "\"", ":", "1", ",", "\"", "z", "z", "\"",
                 ":", "2", "}">>), 10, 2),
    \* {"c":{"zz":1}}
    NameCase(B(<<"{", "\"", "c", "\"", ":", "{", "\"", "z", "z", "\"", ":",
                 "1", "}", "}">>), 9, 3),
    \* {"A":1}
    NameCase(B(<<"{", "\"", "A", "\"", ":", "1", "}">>), 3, 1),
    \* {"":1}
    NameCase(B(<<"{", "\"", "\"", ":", "1", "}">>), 2, 1) }

NameDocs == {c.text : c \in NameCases}

NameCfgs ==
  {[CfgBase EXCEPT !.ndebug = n, !.stale = s] :
     n \in BOOLEAN, s \in {"kept", "clobbered"}}

InitName == InitWith(NameDocs, NameCfgs)

SpecName == InitName /\ [][Next]_vars

\* C17 as stated: in an object that is no map a member name that the
\* message does not have is fatal: "No such field" is reported, the field
\* of the frame stays null, parse() stops at the closing quote of the name
\* and returns less than it was given, and no event is emitted for the
\* member or for anything after it.
C17_AsStated ==
  \A c \in NameCases :
    doc = c.text =>
      /\ parser.p <= c.stop
      /\ Len(parser.events) <= c.nev
      /\ parser.crash = "none"
      /\ Over =>
           /\ pc = "halt"
           /\ parser.errors = <<"No such field">>
           /\ top(parser).f = NULL
           /\ caller.off = c.stop
           /\ parser.returned < caller.size
           /\ Len(parser.events) = c.nev

(***************************************************************************)
(* The values null, true and false for fields of every type.               *)
(***************************************************************************)
KeywordFields ==
  {"a", "l", "u", "v", "d", "g", "t", "s", "b", "e", "c", "r", "q", "m"}

Keywords ==
  [null |-> B(<<"n", "u", "l", "l">>), true |-> B(<<"t", "r", "u", "e">>),
   false |-> B(<<"f", "a", "l", "s", "e">>)]

\* {"f":kw}
KeywordDoc(f, kw) ==
  B(<<"{", "\"">>) \o FieldDefs[f].name \o B(<<"\"", ":">>) \o Keywords[kw]
    \o B(<<"}">>)

KeywordDocs ==
  {KeywordDoc(f, kw) : f \in KeywordFields, kw \in DOMAIN Keywords}

KeywordCfgs == {[CfgBase EXCEPT !.ndebug = n] : n \in BOOLEAN}

InitKeyword == InitWith(KeywordDocs, KeywordCfgs)

SpecKeyword == InitKeyword /\ [][Next]_vars

Startmsg1 ==
  [op |-> "startmsg", sink |-> 1, f |-> "-", val |-> <<>>, handle |-> FALSE]

Endmsg1 ==
  [op |-> "endmsg", sink |-> 1, f |-> "-", val |-> <<>>, handle |-> FALSE]

Putbool1(f, kw) ==
  [op |-> "putbool", sink |-> 1, f |-> f,
   val |-> <<IF kw = "true" THEN 1 ELSE 0>>, handle |-> FALSE]

\* C18: null is accepted for a field of any type, with no event and no
\* change of the frames; true and false emit exactly one putbool of that
\* value when the field is of type BOOL, and otherwise fail with "Boolean
\* value specified for non-bool field" and emit nothing.
C18_NullAndBool ==
  \A f \in KeywordFields, kw \in DOMAIN Keywords :
    doc = KeywordDoc(f, kw) =>
      /\ Len(parser.stack) = 1
      /\ parser.crash = "none"
      /\ Over =>
           IF kw = "null"
           THEN /\ parser.errors = <<>>
                /\ parser.events = <<Startmsg1, Endmsg1>>
           ELSE IF FieldDefs[f].type = "BOOL"
           THEN /\ parser.errors = <<>>
                /\ parser.events = <<Startmsg1, Putbool1(f, kw), Endmsg1>>
           ELSE /\ parser.errors =
                     <<"Boolean value specified for non-bool field">>
                /\ parser.events = <<Startmsg1>>
                /\ pc = "halt"

C18_Witness ==
  /\ doc = KeywordDoc("t", "false")
  /\ Over
  /\ Len(caller.rets) >= 2
  /\ parser.events = <<Startmsg1, Putbool1("t", "false"), Endmsg1>>

(***************************************************************************)
(* An array as the value of fields of every kind.                          *)
(***************************************************************************)
\* {"f":[]}
ArrayDoc(f) ==
  B(<<"{", "\"">>) \o FieldDefs[f].name \o B(<<"\"", ":", "[", "]", "}">>)

ArrayDocs == {ArrayDoc(f) : f \in KeywordFields}

InitArray == InitWith(ArrayDocs, KeywordCfgs)

SpecArray == InitArray /\ [][Next]_vars

\* C19 as stated: start_array pushes a frame and emits startseq only for a
\* repeated field that is no map field; for a field that is not repeated
\* and for a map field it fails with "Array specified for non-repeated
\* field", pushes no frame and emits no startseq.
C19_AsStated ==
  \A f \in KeywordFields :
    doc = ArrayDoc(f) =>
      IF FieldDefs[f].repeated /\ ~upb_fielddef_ismap(f)
      THEN Over =>
             /\ parser.errors = <<>>
             /\ parser.events =
                  << Startmsg1,
                     [op |-> "startseq", sink |-> 1, f |-> f, val |-> <<>>,
                      handle |-> FALSE],
                     [op |-> "endseq", sink |-> 1, f |-> f, val |-> <<>>,
                      handle |-> FALSE],
                     Endmsg1 >>
      ELSE /\ Len(parser.stack) = 1
           /\ \A i \in 1..Len(parser.events) :
                parser.events[i].op # "startseq"
           /\ Over =>
                /\ parser.errors = <<"Array specified for non-repeated field">>
                /\ pc = "halt"

(***************************************************************************)
(* Two parsers of one method, used in turn by one thread.  The parser that *)
(* is not running, with its document and its caller's position, is parked  *)
(* in caller.parked.  errno belongs to the thread, not to a parser: the    *)
(* parser that is taken up finds in it what the other one left.            *)
(***************************************************************************)
PairDocs ==
  { << \* {"d":1e999}
       B(<<"{", "\"", "d", "\"", ":", "1", "e", "9", "9", "9", "}">>),
       \* {"a":1}
       B(<<"{", "\"", "a", "\"", ":", "1", "}">>) >>,
    << \* {"l":12}
       B(<<"{", "\"", "l", "\"", ":", "1", "2", "}">>),
       \* {"t":true}
       B(<<"{", "\"", "t", "\"", ":", "t", "r", "u", "e", "}">>) >>,
    << \* {"r":[1,2]}
       B(<<"{", "\"", "r", "\"", ":", "[", "1", ",", "2", "]", "}">>),
       \* {"zz":1}
       B(<<"{", "\"", "z", "z", "\"", ":", "1", "}">>) >> }

PairMinChunk == 3

Parked(d, P, at, c) ==
  [doc |-> d, parser |-> P, pc |-> at, off |-> c.off, size |-> c.size,
   calls |-> c.calls, rets |-> c.rets]

InitPair ==
  \E pair \in PairDocs :
    /\ doc = pair[1]
    /\ cfg = [CfgBase EXCEPT !.min_chunk = PairMinChunk]
    /\ parser = json_parser_reset
    /\ pc = "idle"
    /\ caller = [off |-> 0, size |-> 0, calls |-> 0, rets |-> <<>>,
                 parked |-> Parked(pair[2], json_parser_reset, "idle",
                                   CallerInit)]

\* Between two parse() calls the thread turns to its other parser.
Switch ==
  /\ pc \in {"idle", "halt"}
  /\ parser.crash = "none"
  /\ doc' = caller.parked.doc
  /\ parser' = [caller.parked.parser EXCEPT !.errno = parser.errno]
  /\ pc' = caller.parked.pc
  /\ caller' = [off |-> caller.parked.off, size |-> caller.parked.size,
                calls |-> caller.parked.calls, rets |-> caller.parked.rets,
                parked |-> Parked(doc, parser, pc, caller)]
  /\ UNCHANGED cfg

NextPair ==
  \/ \E size \in ChunkSizes : ParseBegin(size)
  \/ ExecStep
  \/ ParseReturn
  \/ Switch

SpecPair == InitPair /\ [][NextPair]_vars

\* C20 as stated: a parser whose parse() calls are interleaved with those
\* of another parser of the same method has emitted, when its document is
\* over, the events and the errors it emits when it runs alone.
C20_AsStated ==
  Over =>
    /\ parser.events = SingleChunk.events
    /\ parser.errors = SingleChunk.errors

(***************************************************************************)
(* The nesting of the events of documents that are parsed to the end.      *)
(***************************************************************************)
WellDocs ==
  NestDocs \cup MapDocs \cup
    { \* {"s":"hi","e":"X","r":[]}
      B(<<"{", "\"", "s", "\"", ":", "\"", "h", "i", "\"", ",", "\"", "e",
          "\"", ":", "\"", "X", "\"", ",", "\"", "r", "\"", ":", "[", "]",
          "}">>),
      \* {"r":[[1]],"c":{}}
      B(<<"{", "\"", "r", "\"", ":", "[", "[", "1", "]", "]", ",", "\"", "c",
          "\"", ":", "{", "}", "}">>),
      \* {}
      B(<<"{", "}">>) }

WellMinChunk == 8

WellCfgs ==
  {[CfgBase EXCEPT !.ndebug = n, !.min_chunk = WellMinChunk] : n \in BOOLEAN}

InitWell == InitWith(WellDocs, WellCfgs)

SpecWell == InitWell /\ [][Next]_vars

Closer ==
  [startmsg |-> "endmsg", startsubmsg |-> "endsubmsg", startseq |-> "endseq",
   startstr |-> "endstr"]

\* Whether the events ev[i..] close, last opened first, the events of open
\* (the start events that are not closed yet) and those they open
\* themselves, each with the end event of its kind for the same field on the
\* same sink.
RECURSIVE Nested(_, _, _)
Nested(ev, i, open) ==
  IF i > Len(ev) THEN open = <<>>
  ELSE IF ev[i].op \in DOMAIN Closer
  THEN Nested(ev, i + 1, Append(open, ev[i]))
  ELSE IF ev[i].op \in {Closer[o] : o \in DOMAIN Closer}
  THEN /\ open # <<>>
       /\ Closer[open[Len(open)].op] = ev[i].op
       /\ open[Len(open)].f = ev[i].f
       /\ open[Len(open)].sink = ev[i].sink
       /\ Nested(ev, i + 1, SubSeq(open, 1, Len(open) - 1))
  ELSE Nested(ev, i + 1, open)

\* The document was parsed to its end without error.
ParsedToEnd ==
  /\ pc = "idle"
  /\ caller.off = Len(doc)
  /\ parser.errors = <<>>
  /\ parser.crash = "none"

\* C21: when a document was parsed to its end without error its events are
\* well nested (every start event is closed by the end event of its kind
\* for the same field, last opened first, so a map's startseq by endseq and
\* a submessage's startsubmsg by endsubmsg), and the parser is back at one
\* frame with a null field, multipart INACTIVE and no capture.
C21_WellNested ==
  ParsedToEnd =>
    /\ Nested(parser.events, 1, <<>>)
    /\ Len(parser.stack) = 1
    /\ top(parser).f = NULL
    /\ parser.multipart_state = MULTIPART_INACTIVE
    /\ parser.capture = NullPtr

C21_Witness ==
  /\ ParsedToEnd
  /\ doc = MapDoc(MapCase("o", <<MemKMsg, MemKMsg>>))
  /\ Len(caller.rets) = 3
  /\ Len(SelectSeq(parser.events, LAMBDA e : e.op = "endsubmsg")) = 4
  /\ Len(SelectSeq(parser.events, LAMBDA e : e.op = "endseq")) = 1

(***************************************************************************)
(* A quoted string as the value of fields of every type.                   *)
(***************************************************************************)
StrTexts == {B(<<"X">>), B(<<"Q", "U", "J", "D">>)}

\* {"f":"text"}
StrDoc(f, text) ==
  B(<<"{", "\"">>) \o FieldDefs[f].name \o B(<<"\"", ":", "\"">>) \o text
    \o B(<<"\"", "}">>)

StrDocs == {StrDoc(f, t) : f \in KeywordFields, t \in StrTexts}

InitStr == InitWith(StrDocs, KeywordCfgs)

SpecStr == InitStr /\ [][Next]_vars

\* The opening quote of the value was consumed (it is the 6th byte) and the
\* closing quote was not looked at by end_stringval (which consumes it, or
\* reports an error).
InStringValue(t) ==
  parser.p >= 6 /\ parser.p <= 6 + Len(t) /\ parser.errors = <<>>

Startstr1(f) ==
  [op |-> "startstr", sink |-> 1, f |-> f, val |-> <<0>>, handle |-> FALSE]

\* The frame that start_stringval pushes on the frame of the message.
StringFrame(f) == Frame("Root", f, NULL, FALSE, FALSE, UNINIT)

\* C22: at the opening quote of a value, a STRING field pushes one frame,
\* emits startstr and sets multipart to PUSHEAGERLY, so the text seen by the
\* end of a parse() call has reached putstring; a BYTES field pushes one
\* frame, emits startstr and sets multipart to ACCUMULATE, so no putstring
\* is emitted before the closing quote; an ENUM field pushes no frame and
\* accumulates; a field of any other type fails with "String specified for
\* non-string/non-enum field" with no frame pushed and no event emitted.
C22_StringDispatch ==
  \A f \in KeywordFields, t \in StrTexts :
    doc = StrDoc(f, t) =>
      /\ parser.crash = "none"
      /\ CASE FieldDefs[f].type = "STRING" ->
                InStringValue(t) =>
                  /\ parser.stack = <<Frame("Root", f, "Root", FALSE, FALSE,
                                            UNINIT), StringFrame(f)>>
                  /\ SubSeq(parser.events, 1, 2) = <<Startmsg1, Startstr1(f)>>
                  /\ parser.multipart_state = MULTIPART_PUSHEAGERLY
                  /\ \A i \in 3..Len(parser.events) :
                       /\ parser.events[i].op = "putstring"
                       /\ parser.events[i].sink = 2
                  /\ pc = "idle" =>
                       Flatten(Payloads) = SubSeq(t, 1, parser.p - 6)
           [] FieldDefs[f].type = "BYTES" ->
                InStringValue(t) =>
                  /\ parser.stack = <<Frame("Root", f, "Root", FALSE, FALSE,
                                            UNINIT), StringFrame(f)>>
                  /\ parser.events = <<Startmsg1, Startstr1(f)>>
                  /\ parser.multipart_state = MULTIPART_ACCUMULATE
           [] FieldDefs[f].type = "ENUM" ->
                InStringValue(t) =>
                  /\ Len(parser.stack) = 1
                  /\ parser.events = <<Startmsg1>>
                  /\ parser.multipart_state = MULTIPART_ACCUMULATE
           [] OTHER ->
                /\ parser.p <= 5
                /\ Len(parser.stack) = 1
                /\ Len(parser.events) <= 1
                /\ Over =>
                     /\ parser.errors =
                          <<"String specified for non-string/non-enum field">>
                     /\ pc = "halt"

\* A parse() call has ended inside the text of a STRING value, and the part
\* seen so far has been put.
C22_Witness ==
  /\ doc = StrDoc("s", B(<<"Q", "U", "J", "D">>))
  /\ pc = "idle"
  /\ parser.p = 8
  /\ parser.multipart_state = MULTIPART_PUSHEAGERLY
  /\ Flatten(Payloads) = B(<<"Q", "U">>)

(***************************************************************************)
(* The keys of map entries.                                                *)
(***************************************************************************)
Ev(op, sink, f, val) ==
  [op |-> op, sink |-> sink, f |-> f, val |-> val, handle |-> FALSE]

KeyField(f) == upb_msgdef_itof(FieldDefs[f].sub, UPB_MAPENTRY_KEY)
ValueField(f) == upb_msgdef_itof(FieldDefs[f].sub, UPB_MAPENTRY_VALUE)

\* The events of a string key with the unescaped text name.
StringKey(f, name) ==
  << Ev("startstr", 3, KeyField(f), <<Len(name)>>),
     Ev("putstring", 0, KeyField(f), name),
     Ev("endstr", 3, KeyField(f), <<>>) >>

\* A map field, the text of a key as written in the document, the text of
\* the value, the events of the key, and the error of a key that is none.
KeyCase(f, key, val, kev, err) ==
  [f |-> f, key |-> key, val |-> val, kev |-> kev, err |-> err]

KeyCases ==
  { KeyCase("m", B(<<"k">>), B(<<"1">>), StringKey("m", B(<<"k">>)), ""),
    KeyCase("m", B(<<"a", "\\", "n">>), B(<<"1">>),
            StringKey("m", <<97, 10>>), ""),
    KeyCase("k", B(<<"t", "r", "u", "e">>), B(<<"1">>),
            <<Ev("putbool", 3, "MapBI_key", <<1>>)>>, ""),
    KeyCase("k", B(<<"f", "a", "l", "s", "e">>), B(<<"1">>),
            <<Ev("putbool", 3, "MapBI_key", <<0>>)>>, ""),
    KeyCase("k", B(<<"T", "r", "u", "e">>), B(<<"1">>), <<>>,
            "Map bool key not 'true' or 'false'"),
    KeyCase("i", B(<<"1", "2">>), B(<<"\"", "s", "\"">>),
            <<Ev("putint32", 3, "MapIS_key", <<0, 1, 2>>)>>, ""),
    KeyCase("il", B(<<"-", "3">>), B(<<"1">>),
            <<Ev("putint64", 3, "MapLI_key", <<1, 3>>)>>, ""),
    KeyCase("iu", B(<<"7">>), B(<<"1">>),
            <<Ev("putuint32", 3, "MapUI_key", <<0, 7>>)>>, ""),
    KeyCase("iv", B(<<"7">>), B(<<"1">>),
            <<Ev("putuint64", 3, "MapVI_key", <<0, 7>>)>>, "") }

\* {"f":{"key":val}}
KeyDoc(c) ==
  B(<<"{", "\"">>) \o FieldDefs[c.f].name \o B(<<"\"", ":", "{", "\"">>)
    \o c.key \o B(<<"\"", ":">>) \o c.val \o B(<<"}", "}">>)

\* The number of bytes of KeyDoc(c) up to the closing quote of the key.
KeyEnd(c) == Len(FieldDefs[c.f].name) + Len(c.key) + 7

KeyDocs == {KeyDoc(c) : c \in KeyCases}

KeyCfgs ==
  {[CfgBase EXCEPT !.ndebug = n, !.stale = s] :
     n \in BOOLEAN, s \in {"kept", "clobbered"}}

InitKey == InitWith(KeyDocs, KeyCfgs)

SpecKey == InitKey /\ [][Next]_vars

\* What is emitted before the key of the first entry of map field f.
BeforeKey(f) ==
  << Startmsg1, Ev("startseq", 1, f, <<>>), Ev("startsubmsg", 2, f, <<>>),
     Ev("startmsg", 3, "-", <<>>) >>

\* C23 as stated: the name of a member of a map is emitted as the key
\* according to the type of the key field, before any event of the value:
\* one put of the number for an integer type, putbool for true and false
\* and an error for any other name for a bool type, startstr, one putstring
\* of the whole unescaped name, endstr for a string type; then the entry
\* frame's field is the value field, is_mapentry is true and multipart is
\* INACTIVE.
C23_AsStated ==
  \A c \in KeyCases :
    (doc = KeyDoc(c) /\ parser.p = KeyEnd(c) /\ parser.crash = "none") =>
      IF c.err = ""
      THEN /\ parser.errors = <<>>
           /\ parser.events = BeforeKey(c.f) \o c.kev
           /\ Len(parser.stack) = 3
           /\ top(parser).f = ValueField(c.f)
           /\ top(parser).is_mapentry
           /\ parser.multipart_state = MULTIPART_INACTIVE
      ELSE /\ parser.errors = <<c.err>>
           /\ parser.events = BeforeKey(c.f)

(***************************************************************************)
(* The multipart state where the assembling of a text starts and ends.     *)
(***************************************************************************)
\* The actions of the transition that the running call takes next.
NextActs ==
  IF pc = "exec" /\ ~ExecDone(parser)
  THEN Trans(parser.cs, doc[parser.p + 1]).acts
  ELSE <<>>

\* start_member, start_number or start_stringval is about to be invoked.
AtStartOfText ==
  \E i \in 1..Len(NextActs) :
    NextActs[i] \in {"start_member", "start_number", "start_stringval"}

\* end_membername or end_stringval has returned true: the machine is in the
\* state that follows the closing quote.
AfterEndOfText ==
  /\ parser.cs[2] \in {"obj_aftername", "str_done"}
  /\ ~parser.goto_error
  /\ parser.crash = "none"

\* C24 as stated: whenever start_member, start_number or start_stringval is
\* invoked multipart is INACTIVE and the accumulator is empty, so that the
\* assertions of multipart_startaccum and multipart_start hold; and after an
\* end_membername or end_stringval that lets the parse go on multipart is
\* INACTIVE again and the accumulator is cleared.
C24_AsStated ==
  (AtStartOfText \/ AfterEndOfText) =>
    /\ parser.multipart_state = MULTIPART_INACTIVE
    /\ parser.accumulated = NullPtr
    /\ parser.accumulated_len = 0

(***************************************************************************)
(* A seam inside a token when the first allocation of the accumulate       *)
(* buffer fails, and a caller that calls parse() again with the bytes that *)
(* were not consumed.                                                      *)
(***************************************************************************)
\* A document and the events of its parse.
OomCase(text, events) == [text |-> text, events |-> events]

OomCases ==
  { \* {"a":1234}
    OomCase(B(<<"{", "\"", "a", "\"", ":", "1", "2", "3", "4", "}">>),
            <<Startmsg1, Ev("putint32", 1, "a", <<0, 1, 2, 3, 4>>), Endmsg1>>),
    \* {"a":-12}
    OomCase(B(<<"{", "\"", "a", "\"", ":", "-", "1", "2", "}">>),
            <<Startmsg1, Ev("putint32", 1, "a", <<1, 1, 2>>), Endmsg1>>),
    \* {"ab":1}
    OomCase(B(<<"{", "\"", "a", "b", "\"", ":", "1", "}">>),
            <<Startmsg1, Ev("putint32", 1, "ab", <<0, 1>>), Endmsg1>>) }

OomDocs == {c.text : c \in OomCases}

OomCfgs ==
  {[CfgBase EXCEPT !.ndebug = n, !.oom_at = 1, !.retry = TRUE] :
     n \in BOOLEAN}

InitOom == InitWith(OomDocs, OomCfgs)

SpecOom == InitOom /\ [][Next]_vars

\* A parse() call whose capture_suspend could not forward the text captured
\* so far: it reported the failed allocation and went back to the start of
\* the capture.
SuspendFailed(r) ==
  /\ r.nerr = 1
  /\ r.ret < r.size
  /\ r.saved.capture.kind = "chunk"

\* C25 as stated: when capture_suspend cannot forward the text captured so
\* far, parse() returns the offset of the start of the capture; the next
\* call, given the bytes from that offset, passes the assertion of
\* capture_resume and scans the token again from its first byte, and the
\* document yields the events of an uninterrupted parse.
C25_AsStated ==
  \A c \in OomCases :
    (doc = c.text /\ caller.rets # <<>> /\ SuspendFailed(caller.rets[1])) =>
      /\ caller.rets[1].ret = caller.rets[1].saved.capture.off
      /\ parser.crash = "none"
      /\ parser.errors = <<"Out of memory allocating buffer.">>
      /\ (pc = "idle" /\ caller.off = Len(doc)) => parser.events = c.events

(***************************************************************************)
(* The capture where it begins and ends, and between parse() calls.        *)
(***************************************************************************)
\* capture_begin is about to be invoked (by start_text), or
\* multipart_startaccum and then capture_begin (by start_number).
AtCaptureBegin(a) == \E i \in 1..Len(NextActs) : NextActs[i] = a

\* capture_end is about to be invoked (by end_text or end_number).
AtCaptureEnd ==
  \E i \in 1..Len(NextActs) : NextActs[i] \in {"end_text", "end_number"}

\* The last parse() call has returned, with no error reported during it.
ReturnedClean ==
  /\ pc = "idle"
  /\ caller.rets # <<>>
  /\ caller.rets[Len(caller.rets)].nerr = 0
  /\ parser.crash = "none"

\* C26: capture_begin is invoked only while multipart is active and no
\* capture is, capture_end only while a capture is active, and after a
\* parse() call that returned without error the capture is NULL or the
\* sentinel of a suspended capture, never a pointer into the chunk.
C26_OneCapture ==
  /\ AtCaptureBegin("start_text") =>
       /\ parser.multipart_state # MULTIPART_INACTIVE
       /\ parser.capture = NullPtr
  /\ AtCaptureBegin("start_number") => parser.capture = NullPtr
  /\ AtCaptureEnd =>
       /\ parser.capture.kind = "chunk"
       /\ parser.capture.call = parser.call
  /\ ReturnedClean => parser.capture \in {NullPtr, SuspendPtr}

\* A call has returned inside a number: the capture is suspended.
C26_Witness ==
  /\ doc = B(<<"{", "\"", "a", "\"", ":", "1", "2", "3", "4", "5", "}">>)
  /\ ReturnedClean
  /\ parser.capture = SuspendPtr
  /\ parser.cs[1] = "number"

(***************************************************************************)
(* The current field of the top frame around member names and values.      *)
(***************************************************************************)
\* One of the callbacks of S is about to be invoked.
AboutToRun(S) == \E i \in 1..Len(NextActs) : NextActs[i] \in S

NameCallbacks == {"start_member", "end_membername"}

ValueCallbacks ==
  {"start_number", "end_number", "putbool_true", "putbool_false",
   "start_stringval", "start_subobject", "start_array"}

\* end_member has run: the machine is after a member's value.
AfterEndMember ==
  /\ parser.cs[2] \in {"obj_val_ws", "obj_comma"}
  /\ parser.crash = "none"

\* C27: the top frame's current field is null when start_member or
\* end_membername is invoked, non-null when start_number, end_number,
\* parser_putbool, start_stringval, start_subobject or start_array is
\* invoked, and null after end_member, also in the sequence frame of a map
\* whose entry end_member has popped.
C27_CurrentField ==
  /\ AboutToRun(NameCallbacks) => top(parser).f = NULL
  /\ AboutToRun(ValueCallbacks) => top(parser).f \in FieldIds
  /\ AfterEndMember => top(parser).f = NULL

\* end_member has popped the frame of a map entry: the top frame is the
\* sequence frame of the map, after the comma between two entries.
C27_Witness ==
  /\ parser.cs[2] = "obj_comma"
  /\ top(parser).is_map
  /\ top(parser).f = NULL
  /\ parser.crash = "none"
  /\ parser.errors = <<>>

(***************************************************************************)
(* The frames of maps and of map entries.                                  *)
(***************************************************************************)
\* Frame i of the stack is the frame of a map: the frame below it exists and
\* its current field is the map field this frame was pushed for.
MapFrameOk(i) ==
  /\ i > 1
  /\ parser.stack[i].mapfield \in FieldIds
  /\ upb_fielddef_ismap(parser.stack[i].mapfield)
  /\ parser.stack[i - 1].f = parser.stack[i].mapfield

\* Frame i is the frame of a map entry: the frame below it is the frame of
\* the map, for the same map field.
MapEntryFrameOk(i) ==
  /\ i > 1
  /\ parser.stack[i - 1].is_map
  /\ parser.stack[i - 1].mapfield = parser.stack[i].mapfield

\* C28: no frame in use has is_map and is_mapentry both true; below a frame
\* with is_map there is a frame whose current field is that frame's
\* mapfield, a map field; below a frame with is_mapentry there is a frame
\* with is_map for the same mapfield.
C28_MapFrames ==
  \A i \in 1..Len(parser.stack) :
    /\ ~(parser.stack[i].is_map /\ parser.stack[i].is_mapentry)
    /\ parser.stack[i].is_map => MapFrameOk(i)
    /\ parser.stack[i].is_mapentry => MapEntryFrameOk(i)

\* The frame of a map entry is on top of the frame of its map, which is on
\* top of the frame of the message that has the map field.
C28_Witness ==
  /\ Len(parser.stack) = 3
  /\ parser.stack[2].is_map
  /\ parser.stack[3].is_mapentry
  /\ parser.stack[1].f = parser.stack[3].mapfield
  /\ parser.crash = "none"

(***************************************************************************)
(* The accumulator's content as the sequence of the slices appended.       *)
(***************************************************************************)
\* {"m":{"ab":1}}: the key is appended as the slice a (captured text,
\* can_alias) and the slice b (the UTF-8 of b, copied).
EscapedKeyDoc ==
  B(<<"{", "\"", "m", "\"", ":", "{", "\"", "a", "\\", "u", "0", "0", "6",
      "2", "\"", ":", "1", "}", "}">>)

\* The running call has invoked no callback yet: nothing was appended since
\* the call before it returned.
NothingAppendedYet ==
  /\ pc = "exec"
  /\ parser.nactions = 0
  /\ caller.rets # <<>>
  /\ parser.crash = "none"

\* C29 as stated: the accumulator's logical content and length are those of
\* the slices appended since accumulate_clear, in order: they are at the
\* start of a parse() call what they were when the call before returned;
\* the key ab is a (adopted by reference, the accumulator being empty
\* and can_alias true) while the escape is read in the call that captured
\* the a, and ab, in the owned buffer, once the UTF-8 of the escape was
\* appended.
C29_AsStated ==
  /\ NothingAppendedYet =>
       /\ AccBytes(parser) = caller.rets[Len(caller.rets)].saved.content
       /\ parser.accumulated_len =
            caller.rets[Len(caller.rets)].saved.accumulated_len
  /\ (doc = EscapedKeyDoc /\ parser.cs = <<"string", "esc">>
        /\ parser.buf <= 7 /\ parser.crash = "none") =>
       /\ parser.accumulated.kind = "chunk"
       /\ AccBytes(parser) = B(<<"a">>)
  /\ (doc = EscapedKeyDoc /\ AboutToRun({"end_membername"})
        /\ Len(parser.stack) = 2) =>
       /\ parser.accumulated = BufPtr
       /\ parser.accumulated_len = 2
       /\ AccBytes(parser) = B(<<"a", "b">>)

(***************************************************************************)
(* Appends that fail: documents whose first append into the owned buffer   *)
(* finds no memory (cfg.oom_at = 1).                                       *)
(***************************************************************************)
AppendFailDocs ==
  { \* {"i":{"1":"s"}}
    B(<<"{", "\"", "i", "\"", ":", "{", "\"", "1", "\"", ":", "\"", "s", "\"",
        "}", "}">>),
    \* {"a":12}
    B(<<"{", "\"", "a", "\"", ":", "1", "2", "}">>),
    \* {"m":{"a\nb":1}}
    B(<<"{", "\"", "m", "\"", ":", "{", "\"", "a", "\\", "n", "b", "\"", ":",
        "1", "}", "}">>) }

AppendFailCfgs ==
  {[CfgBase EXCEPT !.ndebug = n, !.oom_at = o] :
     n \in BOOLEAN, o \in {0, 1}}

InitAppendFail == InitWith(AppendFailDocs, AppendFailCfgs)

SpecAppendFail == InitAppendFail /\ [][Next]_vars

AppendErrors == {"Integer overflow.", "Out of memory allocating buffer."}

\* accumulate_append has failed in the running parse() call.
AppendFailed ==
  /\ pc = "exec"
  /\ parser.crash = "none"
  /\ \E i \in (parser.nerrors0 + 1)..Len(parser.errors) :
       parser.errors[i] \in AppendErrors

\* C30 as stated: accumulate_append fails only when the addition overflows
\* or the owned buffer cannot grow; once it has failed the error was
\* reported, false has reached the state machine, which runs no further, and
\* the accumulator's pointer, length, owned buffer and buffer size are as
\* they were: the buffer that could not be allocated is still empty.
C30_AsStated ==
  /\ cfg.oom_at = 0 =>
       \A i \in 1..Len(parser.errors) : parser.errors[i] \notin AppendErrors
  /\ AppendFailed =>
       /\ parser.goto_error
       /\ parser.accumulate_buf_size = 0
       /\ parser.accumulate_buf = <<>>
       /\ parser.accumulated.kind # "accumulate_buf"

(***************************************************************************)
(* The growth loop of accumulate_realloc, one round at a time, for the     *)
(* buffer sizes the parser can have and needs up to SIZE_MAX.              *)
(***************************************************************************)
RECURSIVE Pow2(_)
Pow2(k) == IF k = 0 THEN 1 ELSE 2 * Pow2(k - 1)

\* The largest k with 128 * 2^k <= SIZE_MAX is below MaxDoublings.
MaxDoublings == 20

\* The sizes accumulate_buf_size can have: 0 before the first allocation,
\* then what an earlier accumulate_realloc has set.
OldSizes ==
  {0, SIZE_MAX_MODEL}
    \cup {128 * Pow2(k) : k \in {j \in 0..MaxDoublings :
                                   128 * Pow2(j) <= SIZE_MAX_MODEL}}

Needs ==
  {0, 1, 127, 128, 129, 256, 257, 1000, 65536, 65537,
   SIZE_MAX_MODEL \div 2, (SIZE_MAX_MODEL \div 2) + 1,
   SIZE_MAX_MODEL - 1, SIZE_MAX_MODEL}

UPB_MAX(x, y) == IF x > y THEN x ELSE y

\* size_t old_size = p->accumulate_buf_size;
\* size_t new_size = UPB_MAX(old_size, 128);
InitGrow ==
  /\ doc = <<>>
  /\ cfg = CfgBase
  /\ parser = json_parser_reset
  /\ pc = "grow_loop"
  /\ \E old_size \in OldSizes, need \in Needs :
       caller = [old_size |-> old_size, need |-> need,
                 new_size |-> UPB_MAX(old_size, 128), rounds |-> 0]

\* while (new_size < need) new_size = saturating_multiply(new_size, 2);
GrowRound ==
  /\ pc = "grow_loop"
  /\ caller.new_size < caller.need
  /\ caller.rounds <= 2 * MaxDoublings
  /\ caller' = [caller EXCEPT
                  !.new_size = saturating_multiply(caller.new_size, 2),
                  !.rounds = @ + 1]
  /\ UNCHANGED <<doc, cfg, parser, pc>>

\* The loop is left: upb_env_realloc is asked for new_size bytes.
GrowLeave ==
  /\ pc = "grow_loop"
  /\ ~(caller.new_size < caller.need)
  /\ pc' = "grow_done"
  /\ UNCHANGED <<doc, cfg, parser, caller>>

NextGrow == GrowRound \/ GrowLeave

SpecGrow == InitGrow /\ [][NextGrow]_vars /\ WF_vars(NextGrow)

\* The size the loop has reached is max(old size, 128) times a power of two,
\* or SIZE_MAX.
GeometricSize ==
  \/ caller.new_size = SIZE_MAX_MODEL
  \/ \E k \in 0..MaxDoublings :
       caller.new_size = UPB_MAX(caller.old_size, 128) * Pow2(k)

GrowDone == pc = "grow_done"

\* C31: the growth loop of accumulate_realloc ends for every need up to
\* SIZE_MAX, and the size it asks for is at least need, at least 128 and at
\* least the old size, and is max(old size, 128) times a power of two or
\* SIZE_MAX.
C31_GrowthTerminates ==
  /\ <>GrowDone
  /\ [](GrowDone =>
          /\ caller.new_size >= caller.need
          /\ caller.new_size >= 128
          /\ caller.new_size >= caller.old_size
          /\ caller.new_size <= SIZE_MAX_MODEL
          /\ caller.new_size =
               GrowSize(UPB_MAX(caller.old_size, 128), caller.need)
          /\ GeometricSize)

\* A need above SIZE_MAX / 2 with a buffer of 128 bytes: the last doubling
\* saturates and the loop ends at SIZE_MAX.
C31_Witness ==
  /\ GrowDone
  /\ caller.old_size = 128
  /\ caller.need = SIZE_MAX_MODEL - 1
  /\ caller.new_size = SIZE_MAX_MODEL
  /\ caller.rounds > 1

(***************************************************************************)
(* \uXXXX escapes in a string value and in a map key, in every chunking.   *)
(***************************************************************************)
\* An escaped text with the code points it stands for.
UniCase(text, cps) == [text |-> text, cps |-> cps]

UniCases ==
  { UniCase(B(<<"\\", "u", "0", "0", "0", "0">>), <<0>>),
    UniCase(B(<<"\\", "u", "0", "0", "4", "1">>), <<65>>),
    UniCase(B(<<"\\", "u", "0", "0", "7", "F">>), <<127>>),
    UniCase(B(<<"\\", "u", "0", "0", "8", "0">>), <<128>>),
    UniCase(B(<<"\\", "u", "0", "0", "e", "9">>), <<233>>),
    UniCase(B(<<"\\", "u", "0", "7", "f", "F">>), <<2047>>),
    UniCase(B(<<"\\", "u", "0", "8", "0", "0">>), <<2048>>),
    UniCase(B(<<"\\", "u", "2", "0", "A", "c">>), <<8364>>),
    UniCase(B(<<"\\", "u", "A", "b", "C", "d">>), <<43981>>),
    UniCase(B(<<"\\", "u", "F", "F", "F", "F">>), <<65535>>),
    UniCase(B(<<"\\", "u", "d", "8", "0", "0">>), <<55296>>),
    UniCase(B(<<"\\", "u", "D", "F", "F", "F">>), <<57343>>),
    \* a surrogate pair
    UniCase(B(<<"\\", "u", "D", "8", "3", "D", "\\", "u", "D", "E", "0", "0">>),
            <<55357, 56832>>),
    UniCase(B(<<"a", "\\", "u", "0", "0", "e", "9", "b">>), <<97, 233, 98>>) }

\* {"s":"text"} and {"m":{"text":1}}
UniDoc(f, text) ==
  IF f = "s"
  THEN B(<<"{", "\"", "s", "\"", ":", "\"">>) \o text \o B(<<"\"", "}">>)
  ELSE B(<<"{", "\"", "m", "\"", ":", "{", "\"">>) \o text
         \o B(<<"\"", ":", "1", "}", "}">>)

\* The map key is not given the case with text before the escape.
UniKeyCases == {c \in UniCases : c.text[1] = 92}

UniDocs ==
  {UniDoc("s", c.text) : c \in UniCases}
    \cup {UniDoc("m", c.text) : c \in UniKeyCases}

UniMinChunk == 4

UniCfgs ==
  {[CfgBase EXCEPT !.ndebug = n, !.min_chunk = UniMinChunk] : n \in BOOLEAN}

InitUni == InitWith(UniDocs, UniCfgs)

SpecUni == InitUni /\ [][Next]_vars

\* The length of the standard UTF-8 encoding of a code point below 65536.
Utf8Len(c) == IF c <= 127 THEN 1 ELSE IF c <= 2047 THEN 2 ELSE 3

RECURSIVE Utf8LenAll(_)
Utf8LenAll(cps) ==
  IF Len(cps) = 0 THEN 0 ELSE Utf8Len(cps[1]) + Utf8LenAll(Tail(cps))

\* UTF-8 decoding of one-, two- and three-byte sequences; <<-1>> is appended
\* for what is no such sequence.
RECURSIVE Utf8Decode(_)
Utf8Decode(bs) ==
  IF Len(bs) = 0 THEN <<>>
  ELSE IF bs[1] < 128 THEN <<bs[1]>> \o Utf8Decode(Tail(bs))
  ELSE IF /\ bs[1] \in 192..223
          /\ Len(bs) >= 2
          /\ bs[2] \in 128..191
  THEN <<((bs[1] - 192) * 64) + (bs[2] - 128)>>
         \o Utf8Decode(SubSeq(bs, 3, Len(bs)))
  ELSE IF /\ bs[1] \in 224..239
          /\ Len(bs) >= 3
          /\ bs[2] \in 128..191
          /\ bs[3] \in 128..191
  THEN <<((bs[1] - 224) * 4096) + ((bs[2] - 128) * 64) + (bs[3] - 128)>>
         \o Utf8Decode(SubSeq(bs, 4, Len(bs)))
  ELSE <<-1>>

\* The text the sinks were given, the putstring payloads joined.
TextPut == Flatten(Payloads)

\* C32: for every \uXXXX escape, in a string value or a map key, with hex
\* digits in either case and the escape split across parse() calls or not,
\* the text put is the standard UTF-8 encoding of the 16-bit value: one, two
\* or three bytes that decode to it; a surrogate half is encoded on its own
\* in three bytes and not combined with the escape that follows.
C32_Utf8 ==
  \A c \in UniCases :
    (Over /\ doc \in {UniDoc("s", c.text), UniDoc("m", c.text)}) =>
      /\ parser.errors = <<>>
      /\ parser.crash = "none"
      /\ Len(TextPut) = Utf8LenAll(c.cps)
      /\ Utf8Decode(TextPut) = c.cps

\* The surrogate pair went through with a seam inside the first escape: six
\* bytes were put.
C32_Witness ==
  /\ Over
  /\ doc = UniDoc("s", B(<<"\\", "u", "D", "8", "3", "D", "\\", "u", "D", "E",
                          "0", "0">>))
  /\ \E i \in 1..Len(caller.rets) : caller.rets[i].cs[2] \in {"u1", "u2", "u3"}
  /\ Len(TextPut) = 6
  /\ parser.errors = <<>>

(***************************************************************************)
(* upb_json_parsermethod_new: the name tables of the message types          *)
(* reachable from the root, built by the recursion of add_jsonname_table,  *)
(* one call or one field at a time.  caller is the method being built.     *)
(***************************************************************************)
\* A field of a schema: its message, its proto name and, for a submessage
\* (or map) field, the message type it refers to.
SchemaField(msg, name, sub, num) ==
  [msg |-> msg, name |-> B(name), sub |-> sub, number |-> num]

\* The schema of the parser model, with Root reachable from itself.
ModelSchema ==
  [root |-> "Root",
   msgs |-> {"Root"} \cup MapEntryMsgs,
   fds |-> [f \in FieldIds |->
              [msg |-> FieldDefs[f].msg, name |-> FieldDefs[f].name,
               sub |-> IF FieldDefs[f].type = "MESSAGE"
                       THEN FieldDefs[f].sub ELSE NULL,
               number |-> FieldDefs[f].number]]]

\* A and B refer to each other and B to itself; C is not reachable from A.
CycleSchema ==
  [root |-> "A",
   msgs |-> {"A", "B", "C"},
   fds |-> [f1 |-> SchemaField("A", <<"b", "_", "r", "e", "f">>, "B", 1),
            f2 |-> SchemaField("A", <<"p", "l", "a", "i", "n">>, NULL, 2),
            f3 |-> SchemaField("B", <<"a", "_", "r", "_", "x">>, "A", 1),
            f4 |-> SchemaField("B", <<"s", "e", "l", "f">>, "B", 2),
            f5 |-> SchemaField("C", <<"x">>, NULL, 1)]]

\* A root without fields.
EmptySchema ==
  [root |-> "E0", msgs |-> {"E0"}, fds |-> [f \in {} |-> NULL]]

\* A root that refers to a leaf twice.
DiamondSchema ==
  [root |-> "D",
   msgs |-> {"D", "L"},
   fds |-> [g1 |-> SchemaField("D", <<"l", "_", "1">>, "L", 1),
            g2 |-> SchemaField("D", <<"l", "_", "2">>, "L", 2),
            g3 |-> SchemaField("L", <<"v", "_", "_", "w">>, NULL, 1)]]

\* P, Q and R in a ring, Q with a map-like repeated reference to R.
RingSchema ==
  [root |-> "P",
   msgs |-> {"P", "Q", "R"},
   fds |-> [h1 |-> SchemaField("P", <<"n">>, NULL, 1),
            h2 |-> SchemaField("P", <<"t", "o", "_", "q">>, "Q", 2),
            h3 |-> SchemaField("Q", <<"t", "o", "_", "r">>, "R", 1),
            h4 |-> SchemaField("Q", <<"r", "_", "m", "a", "p">>, "R", 2),
            h5 |-> SchemaField("R", <<"t", "o", "_", "p">>, "P", 1),
            h6 |-> SchemaField("R", <<"k", "_", "e", "y">>, NULL, 2),
            h7 |-> SchemaField("R", <<"s", "e", "l", "f", "_">>, "R", 3),
            h8 |-> SchemaField("P", <<"a", "g", "a", "i", "n">>, "Q", 3)]]

Schemas ==
  {ModelSchema, CycleSchema, EmptySchema, DiamondSchema, RingSchema}

FieldsOf(schema, md) ==
  {f \in DOMAIN schema.fds : schema.fds[f].msg = md}

\* How many fields of F have a number below that of f.
FieldRank(schema, F, f) ==
  Cardinality({g \in F : schema.fds[g].number < schema.fds[f].number})

\* The fields of F in the order the field iterator gives them.
FieldSeq(schema, F) ==
  [i \in 1..Cardinality(F) |->
     CHOOSE f \in F : FieldRank(schema, F, f) = i - 1]

toupper(c) == IF c \in 97..122 THEN c - 32 ELSE c

\* upb_fielddef_getjsonname: the proto name without its underscores, the
\* letter after an underscore in upper case.
RECURSIVE JsonNameFrom(_, _)
JsonNameFrom(name, ucase_next) ==
  IF Len(name) = 0 THEN <<>>
  ELSE IF name[1] = 95 THEN JsonNameFrom(Tail(name), TRUE)
  ELSE IF ucase_next
  THEN <<toupper(name[1])>> \o JsonNameFrom(Tail(name), FALSE)
  ELSE <<name[1]>> \o JsonNameFrom(Tail(name), FALSE)

upb_fielddef_getjsonname(name) == JsonNameFrom(name, FALSE)

\* upb_inttable_lookupptr(&m->name_tables, md, NULL)
upb_inttable_lookupptr(name_tables, md) == name_tables[md].made

\* upb_strtable_insert(t, key, value)
upb_strtable_insert(t, key, f) == t \cup {<<key, f>>}

\* Only the insert of the JSON name.
add_jsonname_entries_json(t, f, name) ==
  upb_strtable_insert(t, upb_fielddef_getjsonname(name), f)

\* The two inserts of add_jsonname_table for field f: the JSON name, and the
\* proto name when strcmp finds it different.
add_jsonname_entries(t, f, name) ==
  IF upb_fielddef_getjsonname(name) # name
  THEN upb_strtable_insert(
         upb_strtable_insert(t, upb_fielddef_getjsonname(name), f), name, f)
  ELSE upb_strtable_insert(t, upb_fielddef_getjsonname(name), f)

\* The recursion is cut off at this depth of calls (never reached: a call
\* for a message that has its table returns at once).
MaxCallDepth == 6

MethodInit(schema) ==
  [schema |-> schema,
   name_tables |-> [md \in schema.msgs |-> [made |-> FALSE, t |-> {}]],
   stack |-> <<[md |-> schema.root, entered |-> FALSE, todo |-> <<>>]>>]

InitMethod ==
  /\ doc = <<>>
  /\ cfg = CfgBase
  /\ parser = json_parser_reset
  /\ pc = "add_jsonname_table"
  /\ \E schema \in Schemas : caller = MethodInit(schema)

Callee == caller.stack[Len(caller.stack)]

\* What is left to do after a call has returned.
Returning(stack) ==
  IF Len(stack) = 1 THEN "built" ELSE "add_jsonname_table"

\* add_jsonname_table(m, md) is entered: it returns at once when md has its
\* table, else the table is created and inserted before the fields are
\* visited.
AddEnter ==
  /\ pc = "add_jsonname_table"
  /\ ~Callee.entered
  /\ IF upb_inttable_lookupptr(caller.name_tables, Callee.md)
     THEN /\ caller' = [caller EXCEPT
                          !.stack = SubSeq(@, 1, Len(@) - 1)]
          /\ pc' = Returning(caller.stack)
     ELSE /\ caller' = [caller EXCEPT
                          !.name_tables[Callee.md] =
                             [made |-> TRUE, t |-> {}],
                          !.stack[Len(caller.stack)] =
                             [md |-> Callee.md, entered |-> TRUE,
                              todo |-> FieldSeq(caller.schema,
                                                FieldsOf(caller.schema,
                                                         Callee.md))]]
          /\ pc' = pc
  /\ UNCHANGED <<doc, cfg, parser>>

\* One round of the loop over the fields: the entries of the field, then the
\* recursive call for the message of a submessage field.
AddField ==
  /\ pc = "add_jsonname_table"
  /\ Callee.entered
  /\ Callee.todo # <<>>
  /\ Len(caller.stack) < MaxCallDepth
  /\ caller' =
       [caller EXCEPT
          !.name_tables[Callee.md].t =
             add_jsonname_entries(@, Head(Callee.todo),
                                  caller.schema.fds[Head(Callee.todo)].name),
          !.stack =
             IF caller.schema.fds[Head(Callee.todo)].sub # NULL
             THEN Append([@ EXCEPT ![Len(@)].todo = Tail(Callee.todo)],
                         [md |-> caller.schema.fds[Head(Callee.todo)].sub,
                          entered |-> FALSE, todo |-> <<>>])
             ELSE [@ EXCEPT ![Len(@)].todo = Tail(Callee.todo)]]
  /\ UNCHANGED <<doc, cfg, parser, pc>>

\* The loop is over: the call returns.
AddReturn ==
  /\ pc = "add_jsonname_table"
  /\ Callee.entered
  /\ Callee.todo = <<>>
  /\ caller' = [caller EXCEPT !.stack = SubSeq(@, 1, Len(@) - 1)]
  /\ pc' = Returning(caller.stack)
  /\ UNCHANGED <<doc, cfg, parser>>

NextMethod == AddEnter \/ AddField \/ AddReturn

SpecMethod == InitMethod /\ [][NextMethod]_vars /\ WF_vars(NextMethod)

\* The message types reachable from the root through submessage fields.
RECURSIVE ReachableFrom(_, _)
ReachableFrom(schema, seen) ==
  IF {schema.fds[f].sub : f \in {g \in DOMAIN schema.fds :
                                   /\ schema.fds[g].msg \in seen
                                   /\ schema.fds[g].sub # NULL}} \subseteq seen
  THEN seen
  ELSE ReachableFrom(schema,
         seen \cup {schema.fds[f].sub : f \in {g \in DOMAIN schema.fds :
                                                 /\ schema.fds[g].msg \in seen
                                                 /\ schema.fds[g].sub # NULL}})

\* What a lookup of the name in table t finds: the fields entered under it.
FoundUnder(t, name) == {e[2] : e \in {x \in t : x[1] = name}}

MethodBuilt == pc = "built"

\* Every field of md is found under its JSON name and its proto name, and
\* nothing else is found under them.
NameTableOk(schema, md, t) ==
  \A f \in FieldsOf(schema, md) :
    /\ FoundUnder(t, upb_fielddef_getjsonname(schema.fds[f].name)) = {f}
    /\ FoundUnder(t, schema.fds[f].name) = {f}

\* C33: building the parser method ends for every schema, cyclic ones
\* included; afterwards the message types that have a name table are those
\* reachable from the root, each table was created once, and in each table
\* every field is found under its JSON name and under its proto name, so
\* that the message of every submessage field of a message with a table has
\* a table.
C33_NameTables ==
  /\ <>MethodBuilt
  /\ [](MethodBuilt =>
          /\ {md \in caller.schema.msgs : caller.name_tables[md].made}
               = ReachableFrom(caller.schema, {caller.schema.root})
          /\ \A md \in ReachableFrom(caller.schema, {caller.schema.root}) :
               /\ NameTableOk(caller.schema, md, caller.name_tables[md].t)
               /\ \A f \in FieldsOf(caller.schema, md) :
                    caller.schema.fds[f].sub # NULL =>
                      caller.name_tables[caller.schema.fds[f].sub].made)
  /\ [][\A md \in caller.schema.msgs :
          caller.name_tables[md].made =>
            caller'.name_tables[md].made
              /\ caller.name_tables[md].t \subseteq caller'.name_tables[md].t]_vars
  /\ [](MethodBuilt /\ caller.schema = ModelSchema =>
          \A md \in caller.schema.msgs, f \in FieldIds :
            FoundUnder(caller.name_tables[md].t, FieldDefs[f].name)
              = {upb_strtable_lookup2(md, FieldDefs[f].name)} \ {NULL})

\* The method of the cyclic schema is built: A and B have their tables, C
\* has none, and the field b_ref of A is found as bRef and as b_ref.
C33_Witness ==
  /\ MethodBuilt
  /\ caller.schema = CycleSchema
  /\ ~caller.name_tables["C"].made
  /\ FoundUnder(caller.name_tables["A"].t, B(<<"b", "R", "e", "f">>)) = {"f1"}
  /\ FoundUnder(caller.name_tables["A"].t, B(<<"b", "_", "r", "e", "f">>))
       = {"f1"}
  /\ caller.name_tables["B"].made

(***************************************************************************)
(* Empty quoted texts where the accumulated text is read.                  *)
(***************************************************************************)
\* {"":1}
EmptyNameDoc == B(<<"{", "\"", "\"", ":", "1", "}">>)
\* {"e":""}
EmptyEnumDoc == B(<<"{", "\"", "e", "\"", ":", "\"", "\"", "}">>)
\* {"m":{"":1}}
EmptyKeyDoc ==
  B(<<"{", "\"", "m", "\"", ":", "{", "\"", "\"", ":", "1", "}", "}">>)
\* {"m":{"k":1},"e":"X"}
FilledDoc ==
  B(<<"{", "\"", "m", "\"", ":", "{", "\"", "k", "\"", ":", "1", "}", ",",
      "\"", "e", "\"", ":", "\"", "X", "\"", "}">>)

EmptyDocs == {EmptyNameDoc, EmptyEnumDoc, EmptyKeyDoc, FilledDoc}

InitEmpty == InitWith(EmptyDocs, KeywordCfgs)

SpecEmpty == InitEmpty /\ [][Next]_vars

\* C34 as stated: the assertion of accumulate_getptr never fails; the empty
\* member name is a lookup miss ("No such field"), the empty quoted enum
\* value an unknown enum value, and the empty map key is converted as a text
\* of length zero: startstr, an empty putstring and endstr, then the value.
C34_AsStated ==
  /\ parser.crash = "none"
  /\ (Over /\ doc = EmptyNameDoc) => parser.errors = <<"No such field">>
  /\ (Over /\ doc = EmptyEnumDoc) => Len(parser.errors) = 1
  /\ (Over /\ doc = EmptyKeyDoc) =>
       /\ parser.errors = <<>>
       /\ EventOps = <<"startmsg", "startseq", "startsubmsg", "startmsg",
                       "startstr", "putstring", "endstr", "putint32",
                       "endmsg", "endsubmsg", "endseq", "endmsg">>

(***************************************************************************)
(* A number literal as the value of each kind of field.                    *)
(***************************************************************************)
\* {"f":7}
SevenDoc(f) ==
  B(<<"{", "\"">>) \o FieldDefs[f].name \o B(<<"\"", ":", "7", "}">>)

SevenDocs == {SevenDoc(f) : f \in KeywordFields}

InitSeven == InitWith(SevenDocs, KeywordCfgs)

SpecSeven == InitSeven /\ [][Next]_vars

\* The fields whose type parse_number has a case for.
TakesNumber(f) ==
  upb_fielddef_type(f)
    \in {"INT32", "INT64", "UINT32", "UINT64", "FLOAT", "DOUBLE", "ENUM"}

\* C35 as stated: a number literal given to a string, bytes, bool or message
\* field is rejected with an error and no event is emitted for it or after
\* it; parse_number's default case is not reached, so its assertion does not
\* fail and the number is not accepted.
C35_AsStated ==
  \A f \in KeywordFields :
    (doc = SevenDoc(f) /\ ~TakesNumber(f)) =>
      /\ parser.crash = "none"
      /\ parser.events \in {<<>>, <<Startmsg1>>}
      /\ Over => (parser.errors # <<>> /\ pc = "halt")


(***************************************************************************)
(* Literals within the range of their field, converted by a parser whose   *)
(* thread has converted other literals before.                             *)
(***************************************************************************)
\* {"a":1}, {"l":12} and {"r":[1,2]}: every literal fits its field.
InRangeDocs ==
  {B(<<"{", "\"", "a", "\"", ":", "1", "}">>),
   B(<<"{", "\"", "l", "\"", ":", "1", "2", "}">>),
   B(<<"{", "\"", "r", "\"", ":", "[", "1", ",", "2", "]", "}">>)}

NumberPuts ==
  {i \in 1..Len(parser.events) :
     parser.events[i].op \in {"putint32", "putint64", "putuint32",
                              "putuint64", "putfloat", "putdouble"}}

\* C36 as stated: the outcome of a conversion depends on the literal's text
\* and the field's type only, so a document whose literals are all within
\* range is parsed without "error parsing number" and every literal is put,
\* whatever conversions this thread made before in this or another parser.
C36_AsStated ==
  (doc \in InRangeDocs /\ Over) =>
    /\ parser.errors = <<>>
    /\ NumberPuts # {}


(***************************************************************************)
(* Quoted integer keys of maps: keys of the JSON integer grammar and keys   *)
(* that only strtol's base 0 reads as a number.                             *)
(***************************************************************************)
IntKeyTexts ==
  {B(<<"1", "2">>), B(<<"-", "3">>), B(<<"0">>), B(<<"0", "x", "1", "0">>),
   B(<<"0", "1", "0">>), B(<<"+", "5">>), B(<<" ", "7">>), B(<<"7", " ">>),
   B(<<"x">>)}

IntKeyCases ==
  {KeyCase(f, key, IF f = "i" THEN B(<<"\"", "s", "\"">>) ELSE B(<<"1">>),
           <<>>, "")
     : f \in {"i", "il", "iu", "iv"}, key \in IntKeyTexts}

IntKeyDocs == {KeyDoc(c) : c \in IntKeyCases}

IntKeyMinChunk == 6

IntKeyCfgs ==
  {[CfgBase EXCEPT !.ndebug = n, !.min_chunk = IntKeyMinChunk] :
     n \in BOOLEAN}

InitIntKey == InitWith(IntKeyDocs, IntKeyCfgs)

SpecIntKey == InitIntKey /\ [][Next]_vars

\* '-'? ('0' | [1-9][0-9]*)
Unsigned(t) ==
  /\ Len(t) >= 1
  /\ \A j \in 1..Len(t) : t[j] \in 48..57
  /\ (t[1] = 48 => Len(t) = 1)

JsonInteger(t) ==
  IF Len(t) >= 1 /\ t[1] = 45 THEN Unsigned(Tail(t)) ELSE Unsigned(t)

\* The base-10 value of a text of the JSON integer grammar.
Digits(t) == [j \in 1..Len(t) |-> t[j] - 48]

Base10(t) ==
  IF t[1] = 45 THEN IntVal(Digits(Tail(t)) # <<0>>, Digits(Tail(t)))
  ELSE IntVal(FALSE, Digits(t))

\* C37 as stated: an integer put for a quoted map key is the base-10 value
\* of the key's text, and a key that does not match the JSON integer grammar
\* '-'? ('0' | [1-9][0-9]*) is put nowhere and fails with "error parsing
\* number".
C37_AsStated ==
  \A c \in IntKeyCases :
    doc = KeyDoc(c) =>
      /\ \A i \in PutsOf(KeyField(c.f)) :
           /\ JsonInteger(c.key)
           /\ parser.events[i].val = Base10(c.key)
      /\ (Over /\ ~JsonInteger(c.key)) =>
           \E e \in 1..Len(parser.errors) :
             parser.errors[e] = "error parsing number"


(***************************************************************************)
(* An array as an element of the array of a repeated field.                *)
(***************************************************************************)
NestedArrayDocs ==
  { \* {"r":[[1]]}
    B(<<"{", "\"", "r", "\"", ":", "[", "[", "1", "]", "]", "}">>),
    \* {"r":[1,[]]}
    B(<<"{", "\"", "r", "\"", ":", "[", "1", ",", "[", "]", "]", "}">>),
    \* {"q":[[{}]]}
    B(<<"{", "\"", "q", "\"", ":", "[", "[", "{", "}", "]", "]", "}">>) }

FlatArrayDocs ==
  { \* {"r":[1,2]}
    B(<<"{", "\"", "r", "\"", ":", "[", "1", ",", "2", "]", "}">>),
    \* {"q":[{}]}
    B(<<"{", "\"", "q", "\"", ":", "[", "{", "}", "]", "}">>) }

InitNested == InitWith(NestedArrayDocs \cup FlatArrayDocs, KeywordCfgs)

SpecNested == InitNested /\ [][Next]_vars

\* The startseq events that are not closed by an endseq of their sink.
OpenSeqs ==
  {i \in 1..Len(parser.events) :
     /\ parser.events[i].op = "startseq"
     /\ \A j \in (i + 1)..Len(parser.events) :
          ~(parser.events[j].op = "endseq"
            /\ parser.events[j].sink = parser.events[i].sink)}

\* C38 as stated: startseq is never emitted for a field while the sequence
\* that start_array opened for that field is the current frame, so no field
\* has two open sequences one directly inside the other, and a document with
\* an array as an element of an array ends with an error.
C38_AsStated ==
  /\ \A i, j \in OpenSeqs :
       (parser.events[i].f = parser.events[j].f
        /\ parser.events[j].sink = parser.events[i].sink + 1) => FALSE
  /\ (doc \in NestedArrayDocs /\ Over) => parser.errors # <<>>


(***************************************************************************)
(* The end() callback of the bytes-handler, called by a caller that has     *)
(* delivered all the bytes it has or that has seen a short return.          *)
(***************************************************************************)
EndDocs ==
  { \* {"a":1}
    B(<<"{", "\"", "a", "\"", ":", "1", "}">>),
    \* {"a":1
    B(<<"{", "\"", "a", "\"", ":", "1">>),
    \* {"r":[1
    B(<<"{", "\"", "r", "\"", ":", "[", "1">>),
    \* {"s":"ab
    B(<<"{", "\"", "s", "\"", ":", "\"", "a", "b">>),
    \* {"a":x}
    B(<<"{", "\"", "a", "\"", ":", "x", "}">>) }

\* end(closure, hd): closure and hd are unused; returns true.
end(P) == TRUE

InitEnd ==
  /\ doc \in EndDocs
  /\ cfg \in KeywordCfgs
  /\ parser = json_parser_reset
  /\ pc = "idle"
  /\ caller = [off |-> 0, size |-> 0, calls |-> 0, rets |-> <<>>,
               end_ret |-> "none"]

\* The caller ends the stream.
EndCall ==
  /\ Over
  /\ parser.crash = "none"
  /\ caller' = [caller EXCEPT
                  !.end_ret = IF end(parser) THEN "true" ELSE "false"]
  /\ pc' = "ended"
  /\ UNCHANGED <<doc, cfg, parser>>

NextEnd ==
  \/ \E size \in ChunkSizes : ParseBegin(size)
  \/ ExecStep
  \/ ParseReturn
  \/ EndCall

SpecEnd == InitEnd /\ [][NextEnd]_vars

\* The root object has been parsed completely.
RootComplete ==
  /\ parser.cs = <<"main", "obj_done">>
  /\ Len(parser.stack) = 1
  /\ parser.multipart_state = MULTIPART_INACTIVE
  /\ parser.capture = NullPtr
  /\ parser.errors = <<>>

\* C39 as stated: end() returns success only if the root object has been
\* parsed completely (its closing brace consumed, one frame in use,
\* multipart INACTIVE, no capture); on a truncated document and after an
\* error it reports failure.
C39_AsStated ==
  pc = "ended" => (caller.end_ret = "true" <=> RootComplete)

=============================================================================
